---- MODULE Spec2Model ----
(***************************************************************************)
(* A model of the Telegram quiz bot (src/main.py, src/flask_app.py).       *)
(*                                                                         *)
(* The specifications share the variables below:                           *)
(*   SpecExec     - bulletproof_api_call and the HealthMonitor it reports  *)
(*                  to                                                     *)
(*   SpecStore    - the session maps under the handlers' touches and       *)
(*                  writes and whole eviction passes                       *)
(*   SpecFlow     - the event handlers and the session maps, one event at  *)
(*                  a time, with eviction passes run as a whole            *)
(*   SpecRace     - the maintenance thread's eviction pass statement by    *)
(*                  statement against the event handler's statements       *)
(*   SpecValidate - what handle_json_message makes of a text: json.loads,  *)
(*                  the question lookup, the validation loop and the polls *)
(*   SpecFault    - the try/except structure of the handlers with an       *)
(*                  exception raised at any step                           *)
(***************************************************************************)
EXTENDS Integers, Sequences, FiniteSets, TLC

VARIABLES
    \* ---- bulletproof_api_call (one call at a time) and HealthMonitor
    api_pc,          \* "idle" | "running" | "returned" | "raised"
    attempt,         \* the for loop's variable
    outs,            \* what each invocation of the wrapped operation did
    waits,           \* the asyncio.sleep arguments of this call, in ms
    reported,        \* record_success / record_failure invocations of this call
    api_result,      \* "pending" | "result" | "None" | "raised"
    last_exception,  \* class of the last recorded exception, "None" at start
    health,          \* HealthMonitor's counters
    calls,           \* calls started so far
    \* ---- the session maps and the clock
    now,             \* what time.time() returns
    user_activity,   \* dict user_id -> last activity, in insertion order
    user_states,     \* dict user_id -> "choosing_type" | "waiting_for_json"
    user_preferences,\* dict user_id -> is_anonymous
    last_cleanup,    \* memory_manager.last_cleanup
    \* ---- the event handler (one event at a time)
    h_pc,            \* where the running handler is; "idle" / "returned" between events
    h_event,         \* "none" | "start" | "select" | "json"
    h_user,          \* the event's user
    h_entry,         \* the user's state when the handler looked at it
    h_data,          \* the callback's data
    h_payload,       \* what parsing and validating the text gives
    is_anonymous,    \* handle_json_message's local
    processing_msg,  \* handle_json_message's local: the message object or None
    q_i,             \* send_quiz_questions' loop index
    success_count,   \* send_quiz_questions' counter
    polls,           \* the polls handed to safe_send_poll in this event
    delays,          \* the inter-question sleeps of this event, in ms
    last_notice,     \* the last user-visible message of this event, by kind
    events,          \* events begun so far
    \* ---- the maintenance thread's eviction pass, statement by statement
    m_pc,            \* where the pass is; "idle" between passes
    m_time,          \* the pass's current_time
    m_snap,          \* the dict object the pass is iterating, as it was
    m_broken,        \* that dict changed size under the iteration
    m_inactive,      \* inactive_users still to remove
    m_keep,          \* keep_users
    m_new,           \* the dict a comprehension has built, not yet assigned
    r_ops,           \* the statements the running handler has still to execute
    r_user,          \* that handler's user
    r_data,          \* that handler's callback data
    overlap,         \* a handler statement ran while a pass was under way
    \* ---- history kept for stating properties
    lastTouch,       \* user -> time of its last update_user_activity, -1 if none
    lastEviction,    \* what the last capacity eviction kept and discarded, and the
                     \* users it left a state or a preference
    passLeft,        \* sessions older than the TTL left by the last eviction pass
    \* ---- parsing and validating one text message
    v_pc,            \* "idle" | "received" | "done"
    v_text,          \* user_message: whether it is JSON and the value it denotes
    v_result,        \* the branch taken and valid_questions
    v_polls,         \* the poll_params handed to bot.send_poll, in order
    \* ---- a handler under exceptions
    f_handler,       \* the handler that is running, "none" between events
    f_frames,        \* the try statements entered, innermost last
    f_pc,            \* the step the handler is at
    f_exit,          \* "none" | "returned" | "raised": how the last handler ended
    f_faults,        \* exceptions raised in the running handler so far
    f_state,         \* user_states.get(user_id) of the user the handler serves
    f_notice,        \* "generic_failure" once the fallback send was attempted
    \* ---- the webhook variant (flask_app.py)
    user_data,       \* the dict of sessions, in insertion order
    w_now,           \* time.time() of the webhook process
    total_requests,  \* bot_stats['total_requests']
    w_last,          \* the last update handled and what it was answered
    \* ---- process control
    should_stop,     \* the flag the signal handler sets
    \* ---- run() and the maintenance threads it starts
    run_pc,          \* where the main thread is in run()
    restart_count,   \* restart_count of run()
    workers          \* the maintenance threads started so far, in start order

apiVars == <<api_pc, attempt, outs, waits, reported, api_result, last_exception,
             health, calls>>

storeVars == <<now, user_activity, user_states, user_preferences, last_cleanup>>

handlerVars == <<h_pc, h_event, h_user, h_entry, h_data, h_payload, is_anonymous,
                 processing_msg, q_i, success_count, polls, delays, last_notice,
                 events>>

raceVars == <<m_pc, m_time, m_snap, m_broken, m_inactive, m_keep, m_new,
              r_ops, r_user, r_data, overlap>>

historyVars == <<lastTouch, lastEviction, passLeft>>

validateVars == <<v_pc, v_text, v_result, v_polls>>

faultVars == <<f_handler, f_frames, f_pc, f_exit, f_faults, f_state, f_notice>>

webVars == <<user_data, w_now, total_requests, w_last>>

signalVars == <<should_stop>>

workerVars == <<run_pc, restart_count, workers>>

sideVars == <<validateVars, faultVars, webVars, signalVars, workerVars>>

vars == <<apiVars, storeVars, handlerVars, raceVars, historyVars, sideVars>>

(***************************************************************************)
(* Program constants.                                                      *)
(***************************************************************************)
max_retries == 3
base_retry_delay_ms == 1000
max_retry_delay_ms == 30000
max_consecutive_failures == 10

(***************************************************************************)
(* Bounds of the model.  The store's capacity (200 in the program), the    *)
(* TTL (1800 s) and the maintenance interval (60 s) are scaled down to a   *)
(* few users and clock ticks.                                              *)
(***************************************************************************)
MaxCalls == 1
MaxTime == 2
MaxQuestions == 2
MaxEvents == 3

Users == {1, 2, 3}

max_stored_users == 2
user_data_ttl == 1
cleanup_interval == 1

\* retry_after values (seconds) a RetryAfter may carry; hash(...) % 100 values
RetryAfterValues == {5, 70}
JitterValues == {0, 99}

(***************************************************************************)
(* What one invocation of the wrapped operation can do: return, or raise   *)
(* an exception of one of these classes.  TelegramError is split by        *)
(* whether its message mentions a timeout (main.py line 377).              *)
(***************************************************************************)
ExceptionClasses ==
    {"RetryAfter", "NetworkError", "TimedOut", "BadRequest", "Forbidden",
     "TelegramError", "ConnectionError", "OSError", "asyncio.TimeoutError",
     "ValueError"}

Outcomes ==
    {[cls |-> "Ok", timeoutText |-> FALSE]}
    \cup {[cls |-> c, timeoutText |-> FALSE] : c \in ExceptionClasses}
    \cup {[cls |-> "TelegramError", timeoutText |-> TRUE]}

\* The base class of each exception class: telegram.error of
\* python-telegram-bot 20+ (the release that exports Forbidden) and the
\* builtins.  asyncio.wait_for's timeout is given its own class; where it is
\* an alias of the builtin TimeoutError the OSError clause handles it the
\* same way (record_failure, backoff, continue).
Parent(c) ==
    CASE c = "RetryAfter"           -> "TelegramError"
      [] c = "NetworkError"         -> "TelegramError"
      [] c = "TimedOut"             -> "NetworkError"
      [] c = "BadRequest"           -> "NetworkError"
      [] c = "Forbidden"            -> "TelegramError"
      [] c = "TelegramError"        -> "Exception"
      [] c = "ConnectionError"      -> "OSError"
      [] c = "OSError"              -> "Exception"
      [] c = "asyncio.TimeoutError" -> "Exception"
      [] c = "ValueError"           -> "Exception"
      [] OTHER                      -> "BaseException"

RECURSIVE IsInstance(_, _)
IsInstance(c, k) ==
    IF c = k THEN TRUE
    ELSE IF c = "BaseException" THEN FALSE
    ELSE IsInstance(Parent(c), k)

\* A mutant of ExceptClauses: the final catch-all clause is missing.
ExceptClausesNoCatchAll ==
    << {"RetryAfter"},
       {"NetworkError", "TimedOut", "ConnectionError", "OSError"},
       {"BadRequest", "Forbidden"},
       {"TelegramError"},
       {"asyncio.TimeoutError"} >>

\* The except clauses of bulletproof_api_call, in the order they are tried.
ExceptClauses ==
    << {"RetryAfter"},
       {"NetworkError", "TimedOut", "ConnectionError", "OSError"},
       {"BadRequest", "Forbidden"},
       {"TelegramError"},
       {"asyncio.TimeoutError"},
       {"Exception"} >>

ClauseMatches(c, i) == \E k \in ExceptClauses[i] : IsInstance(c, k)

\* The first clause that matches an exception of class c; 0 when none does
\* and the exception leaves the function.
MatchedClause(c) ==
    IF \E i \in 1..Len(ExceptClauses) : ClauseMatches(c, i)
    THEN CHOOSE i \in 1..Len(ExceptClauses) :
            /\ ClauseMatches(c, i)
            /\ \A j \in 1..(i - 1) : ~ClauseMatches(c, j)
    ELSE 0

RECURSIVE Pow2(_)
Pow2(n) == IF n = 0 THEN 1 ELSE 2 * Pow2(n - 1)

Min(a, b) == IF a < b THEN a ELSE b

\* calculate_retry_delay, in ms; j is hash(str(time.time())) % 100
calculate_retry_delay(a, j) ==
    LET base_delay == Min(base_retry_delay_ms * Pow2(a), max_retry_delay_ms)
    IN  base_delay + (base_delay * j) \div 1000

\* A mutant of record_success: the health flag is left as it is.
record_success_sticky(h) ==
    [h EXCEPT !.api_success_count = @ + 1,
              !.consecutive_failures = 0]

\* HealthMonitor.record_success / record_failure
record_success(h) ==
    [h EXCEPT !.api_success_count = @ + 1,
              !.consecutive_failures = 0,
              !.is_healthy = TRUE]

\* A mutant of record_failure: the threshold is compared with >.
record_failure_late(h) ==
    [h EXCEPT !.api_failure_count = @ + 1,
              !.consecutive_failures = @ + 1,
              !.is_healthy = IF h.consecutive_failures + 1 > max_consecutive_failures
                             THEN FALSE ELSE @]

record_failure(h) ==
    [h EXCEPT !.api_failure_count = @ + 1,
              !.consecutive_failures = @ + 1,
              !.is_healthy = IF h.consecutive_failures + 1 >= max_consecutive_failures
                             THEN FALSE ELSE @]

\* A mutant of LoopHasNext: the loop runs one attempt more.
LoopHasNextLong(a) == a + 1 < max_retries + 1

\* A mutant of LoopHasNext: the loop runs one attempt short.
LoopHasNextShort(a) == a + 1 < max_retries - 1

\* for attempt in range(self.max_retries): whether another iteration follows
LoopHasNext(a) == a + 1 < max_retries

HealthInit ==
    [api_success_count |-> 0, api_failure_count |-> 0,
     consecutive_failures |-> 0, is_healthy |-> TRUE]

ApiInit ==
    /\ api_pc = "idle"
    /\ attempt = 0
    /\ outs = <<>>
    /\ waits = <<>>
    /\ reported = [success |-> 0, failure |-> 0]
    /\ api_result = "pending"
    /\ last_exception = "None"
    /\ health = HealthInit
    /\ calls = 0

\* Entering bulletproof_api_call (line 334).
ApiCall ==
    /\ api_pc \in {"idle", "returned", "raised"}
    /\ calls < MaxCalls
    /\ api_pc' = "running"
    /\ attempt' = 0
    /\ outs' = <<>>
    /\ waits' = <<>>
    /\ reported' = [success |-> 0, failure |-> 0]
    /\ api_result' = "pending"
    /\ last_exception' = "None"
    /\ calls' = calls + 1
    /\ UNCHANGED health

\* continue / falling off the end of the loop body: the next iteration when
\* there is one, else the code after the loop (return None).
NextIteration ==
    IF LoopHasNext(attempt)
    THEN /\ attempt' = attempt + 1
         /\ api_pc' = "running"
         /\ api_result' = "pending"
    ELSE /\ attempt' = attempt
         /\ api_pc' = "returned"
         /\ api_result' = "None"

\* break: the code after the loop (return None).
BreakLoop ==
    /\ attempt' = attempt
    /\ api_pc' = "returned"
    /\ api_result' = "None"

Failed(c) ==
    /\ last_exception' = c
    /\ health' = record_failure(health)
    /\ reported' = [reported EXCEPT !.failure = @ + 1]

\* One iteration of the loop: the operation is invoked and does o.
ApiAttempt(o, ra, j) ==
    /\ api_pc = "running"
    /\ outs' = Append(outs, o)
    /\ UNCHANGED calls
    /\ LET clause == MatchedClause(o.cls)
           retrying == attempt < max_retries - 1
       IN
       IF o.cls = "Ok"
       THEN \* lines 339-346
            /\ health' = record_success(health)
            /\ reported' = [reported EXCEPT !.success = @ + 1]
            /\ api_pc' = "returned"
            /\ api_result' = "result"
            /\ UNCHANGED <<attempt, waits, last_exception>>
       ELSE IF clause = 1
       THEN \* lines 348-353: RetryAfter
            /\ waits' = Append(waits, Min(ra + 1, 60) * 1000)
            /\ NextIteration
            /\ UNCHANGED <<last_exception, health, reported>>
       ELSE IF clause = 2
       THEN \* lines 355-363: NetworkError, TimedOut, ConnectionError, OSError
            /\ Failed(o.cls)
            /\ waits' = IF retrying
                        THEN Append(waits, calculate_retry_delay(attempt, j))
                        ELSE waits
            /\ NextIteration
       ELSE IF clause = 3
       THEN \* lines 365-370: BadRequest, Forbidden
            /\ Failed(o.cls)
            /\ BreakLoop
            /\ UNCHANGED waits
       ELSE IF clause = 4
       THEN \* lines 372-384: TelegramError
            /\ Failed(o.cls)
            /\ IF o.timeoutText
               THEN /\ waits' = IF retrying
                                THEN Append(waits, calculate_retry_delay(attempt, j))
                                ELSE waits
                    /\ NextIteration
               ELSE /\ BreakLoop
                    /\ UNCHANGED waits
       ELSE IF clause = 5
       THEN \* lines 386-393: asyncio.TimeoutError
            /\ Failed("TimeoutError")
            /\ waits' = IF retrying
                        THEN Append(waits, calculate_retry_delay(attempt, j))
                        ELSE waits
            /\ NextIteration
       ELSE IF clause = 6
       THEN \* lines 395-404: Exception
            /\ Failed(o.cls)
            /\ IF retrying
               THEN /\ waits' = Append(waits, 1000)
                    /\ NextIteration
               ELSE /\ BreakLoop
                    /\ UNCHANGED waits
       ELSE \* no clause matches: the exception leaves the function
            /\ api_pc' = "raised"
            /\ api_result' = "raised"
            /\ UNCHANGED <<attempt, waits, last_exception, health, reported>>

ApiStep ==
    \E o \in Outcomes, ra \in RetryAfterValues, j \in JitterValues :
        ApiAttempt(o, ra, j)

(***************************************************************************)
(* The session maps.  user_activity is a sequence of [uid, t] in the       *)
(* dict's insertion order, which decides ties in the capacity eviction;    *)
(* user_states and user_preferences are functions on their key sets.       *)
(***************************************************************************)
EmptyMap == [x \in {} |-> TRUE]

Put(f, k, v) == [x \in (DOMAIN f) \cup {k} |-> IF x = k THEN v ELSE f[x]]

Pop(f, k) == [x \in (DOMAIN f) \ {k} |-> f[x]]

Restrict(f, S) == [x \in (DOMAIN f) \cap S |-> f[x]]

ActivityKeys(act) == {act[i].uid : i \in 1..Len(act)}

ActivityOf(act, u) == (CHOOSE i \in 1..Len(act) : act[i].uid = u)

RECURSIVE SelectSeqBy(_, _)
\* the subsequence of act whose uid is in S, order kept
SelectSeqBy(act, S) ==
    IF act = <<>> THEN <<>>
    ELSE IF Head(act).uid \in S
         THEN <<Head(act)>> \o SelectSeqBy(Tail(act), S)
         ELSE SelectSeqBy(Tail(act), S)

\* self.user_activity[user_id] = current_time
SetActivity(act, u, t) ==
    IF u \in ActivityKeys(act)
    THEN [act EXCEPT ![ActivityOf(act, u)].t = t]
    ELSE Append(act, [uid |-> u, t |-> t])

RemoveAt(s, i) == SubSeq(s, 1, i - 1) \o SubSeq(s, i + 1, Len(s))

\* A mutant of FirstBest: the oldest entry first (reverse=True dropped).
FirstOldest(s) ==
    CHOOSE i \in 1..Len(s) :
        /\ \A j \in 1..Len(s) : s[i].t <= s[j].t
        /\ \A j \in 1..(i - 1) : s[j].t > s[i].t

\* The index of the entry sorted(..., key=lambda x: x[1], reverse=True) puts
\* first: the greatest t, and among equals the earliest in the dict.
FirstBest(s) ==
    CHOOSE i \in 1..Len(s) :
        /\ \A j \in 1..Len(s) : s[j].t <= s[i].t
        /\ \A j \in 1..(i - 1) : s[j].t < s[i].t

RECURSIVE sorted_users(_)
sorted_users(s) ==
    IF s = <<>> THEN <<>>
    ELSE LET i == FirstBest(s)
         IN  <<s[i]>> \o sorted_users(RemoveAt(s, i))

\* A mutant of KeepCount: the slice without the halving.
KeepCountAll(n) == Min(n, max_stored_users)

\* how many entries the slice [:self.max_stored_users // 2] keeps of n
KeepCount(n) == Min(n, max_stored_users \div 2)

\* inactive_users (lines 272-275)
Inactive(act, t) ==
    {act[i].uid : i \in {j \in 1..Len(act) : act[j].t < t - user_data_ttl}}

\* aggressive_cleanup (lines 265-308) run as a whole at time t.  The result
\* carries the three maps and what the capacity pass kept and discarded.
aggressive_cleanup(act, st, pr, t) ==
    LET inactive == Inactive(act, t)
        act1 == SelectSeqBy(act, ActivityKeys(act) \ inactive)
        st1  == Restrict(st, (DOMAIN st) \ inactive)
        pr1  == Restrict(pr, (DOMAIN pr) \ inactive)
    IN  IF Len(act1) > max_stored_users
        THEN LET top == SubSeq(sorted_users(act1), 1, KeepCount(Len(act1)))
                 keep_users == ActivityKeys(top)
                 act2 == SelectSeqBy(act1, keep_users)
                 st2 == Restrict(st1, keep_users)
                 pr2 == Restrict(pr1, keep_users)
             IN  [act |-> act2,
                  st |-> st2,
                  pr |-> pr2,
                  capacity |-> TRUE,
                  kept |-> {act2[i] : i \in 1..Len(act2)},
                  owners |-> (DOMAIN st2) \cup (DOMAIN pr2),
                  dropped |-> {act1[i] : i \in 1..Len(act1)}
                              \ {act2[i] : i \in 1..Len(act2)}]
        ELSE [act |-> act1, st |-> st1, pr |-> pr1,
              capacity |-> FALSE, kept |-> {}, owners |-> {}, dropped |-> {}]

\* update_user_activity (lines 252-263) at time t
update_user_activity(act, st, pr, u, t) ==
    LET act1 == SetActivity(act, u, t)
    IN  IF Len(act1) > max_stored_users
        THEN aggressive_cleanup(act1, st, pr, t) @@ [ran |-> TRUE]
        ELSE [act |-> act1, st |-> st, pr |-> pr, capacity |-> FALSE,
              kept |-> {}, owners |-> {}, dropped |-> {}, ran |-> FALSE]

\* the users a finished pass leaves in some map although their last
\* activity is older than the TTL
LeftExpired(r, touch, t) ==
    {u \in ActivityKeys(r.act) \cup (DOMAIN r.st) \cup (DOMAIN r.pr) :
        t - touch[u] > user_data_ttl}

StoreInit ==
    /\ now = 0
    /\ user_activity = <<>>
    /\ user_states = EmptyMap
    /\ user_preferences = EmptyMap
    /\ last_cleanup = 0

HistoryInit ==
    /\ lastTouch = [u \in Users |-> -1]
    /\ lastEviction = [kept |-> {}, owners |-> {}, dropped |-> {}]
    /\ passLeft = {}

RaceInit ==
    /\ m_pc = "idle"
    /\ m_time = 0
    /\ m_snap = <<>>
    /\ m_broken = FALSE
    /\ m_inactive = <<>>
    /\ m_keep = {}
    /\ m_new = <<>>
    /\ r_ops = <<>>
    /\ r_user = 0
    /\ r_data = "none"
    /\ overlap = FALSE

HandlerInit ==
    /\ h_pc = "idle"
    /\ h_event = "none"
    /\ h_user = 0
    /\ h_entry = "none"
    /\ h_data = "none"
    /\ h_payload = [kind |-> "none", n |-> 0]
    /\ is_anonymous = TRUE
    /\ processing_msg = FALSE
    /\ q_i = 0
    /\ success_count = 0
    /\ polls = <<>>
    /\ delays = <<>>
    /\ last_notice = "none"
    /\ events = 0

\* update_user_activity(u) on the current maps at the current time
TouchResult(u) ==
    update_user_activity(user_activity, user_states, user_preferences, u, now)

(***************************************************************************)
(* SpecStore: the session maps under whole handlers.  A handler's sends do *)
(* not touch the maps, so a handler is what it does to them: its           *)
(* update_user_activity calls and its writes of state and preference.      *)
(***************************************************************************)
CallbackData == {"anonymous_true", "anonymous_false", "other"}

StateOf(st, u) == IF u \in DOMAIN st THEN st[u] ELSE "none"

Maps == [act |-> user_activity, st |-> user_states, pr |-> user_preferences]

History == [touch |-> lastTouch, evict |-> lastEviction, left |-> passLeft]

\* the history after update_user_activity(u) at time t returned r
HistoryAfter(H, r, u, t) ==
    LET touch2 == [H.touch EXCEPT ![u] = t]
    IN  [touch |-> touch2,
         evict |-> IF r.capacity
                   THEN [kept |-> r.kept, owners |-> r.owners, dropped |-> r.dropped]
                   ELSE H.evict,
         left |-> IF r.ran THEN LeftExpired(r, touch2, t) ELSE H.left]

SetMaps(r) ==
    /\ user_activity' = r.act
    /\ user_states' = r.st
    /\ user_preferences' = r.pr

SetHistory(H) ==
    /\ lastTouch' = H.touch
    /\ lastEviction' = H.evict
    /\ passLeft' = H.left

\* A mutant of TouchAndChoose: the state is written only for a user who has
\* none.
TouchAndChooseNew(m, u, t) ==
    LET r == update_user_activity(m.act, m.st, m.pr, u, t)
    IN  IF u \in DOMAIN m.st THEN r
        ELSE [r EXCEPT !.st = Put(r.st, u, "choosing_type")]

\* A mutant of TouchAndSelect: a button pressed outside choosing_type only
\* touches.
TouchAndSelectChoosing(m, u, d, t) ==
    LET r == update_user_activity(m.act, m.st, m.pr, u, t)
    IN  IF StateOf(m.st, u) = "choosing_type"
        THEN [r EXCEPT !.pr = Put(r.pr, u, d = "anonymous_true"),
                       !.st = Put(r.st, u, "waiting_for_json")]
        ELSE r

\* A mutant of TouchAndSelect: the preference is always anonymous.
TouchAndSelectAnonymous(m, u, d, t) ==
    LET r == update_user_activity(m.act, m.st, m.pr, u, t)
    IN  [r EXCEPT !.pr = Put(r.pr, u, TRUE),
                  !.st = Put(r.st, u, "waiting_for_json")]

\* start_command lines 611-612 and restart_cycle lines 947-948 on maps m
TouchAndChoose(m, u, t) ==
    LET r == update_user_activity(m.act, m.st, m.pr, u, t)
    IN  [r EXCEPT !.st = Put(r.st, u, "choosing_type")]

\* handle_quiz_type_selection lines 685-689 on maps m
TouchAndSelect(m, u, d, t) ==
    LET r == update_user_activity(m.act, m.st, m.pr, u, t)
    IN  [r EXCEPT !.pr = Put(r.pr, u, d = "anonymous_true"),
                  !.st = Put(r.st, u, "waiting_for_json")]

StoreOnly == UNCHANGED <<apiVars, handlerVars, raceVars, sideVars, now, last_cleanup>>

\* help, status, template, quickstart, toggle: update_user_activity only
Store_Command(u) ==
    /\ \E r \in {TouchResult(u)} :
          /\ SetMaps(r)
          /\ SetHistory(HistoryAfter(History, r, u, now))
    /\ StoreOnly

\* start_command
Store_Start(u) ==
    /\ \E r \in {TouchAndChoose(Maps, u, now)} :
          /\ SetMaps(r)
          /\ SetHistory(HistoryAfter(History, r, u, now))
    /\ StoreOnly

\* handle_quiz_type_selection
Store_Select(u, d) ==
    /\ \E r \in {TouchAndSelect(Maps, u, d, now)} :
          /\ SetMaps(r)
          /\ SetHistory(HistoryAfter(History, r, u, now))
    /\ StoreOnly

\* handle_json_message: update_user_activity, then restart_cycle (state
\* waiting_for_json), start_command (the prompt was delivered) or nothing
Store_Text(u, ok) ==
    /\ \E r \in {TouchResult(u)} :
          \E H \in {HistoryAfter(History, r, u, now)} :
             IF StateOf(r.st, u) = "waiting_for_json" \/ ok
             THEN \E r2 \in {TouchAndChoose(r, u, now)} :
                     /\ SetMaps(r2)
                     /\ SetHistory(HistoryAfter(H, r2, u, now))
             ELSE /\ SetMaps(r)
                  /\ SetHistory(H)
    /\ StoreOnly

\* time.time() moves on
Store_Tick ==
    /\ now < MaxTime
    /\ now' = now + 1
    /\ UNCHANGED <<apiVars, handlerVars, raceVars, historyVars, sideVars, user_activity,
                   user_states, user_preferences, last_cleanup>>

\* maintenance_worker lines 231-233 with the eviction pass run as a whole:
\* should_cleanup(), aggressive_cleanup(), force_cleanup()
Store_Maintenance ==
    /\ now - last_cleanup > cleanup_interval
    /\ \E r \in {aggressive_cleanup(user_activity, user_states, user_preferences, now)} :
          /\ SetMaps(r)
          /\ lastEviction' = IF r.capacity
                             THEN [kept |-> r.kept, owners |-> r.owners,
                                   dropped |-> r.dropped]
                             ELSE lastEviction
          /\ passLeft' = LeftExpired(r, lastTouch, now)
    /\ last_cleanup' = now
    /\ UNCHANGED <<apiVars, handlerVars, raceVars, sideVars, now, lastTouch>>

StoreNext ==
    \/ \E u \in Users : Store_Command(u)
    \/ \E u \in Users : Store_Start(u)
    \/ \E u \in Users, d \in CallbackData : Store_Select(u, d)
    \/ \E u \in Users, ok \in BOOLEAN : Store_Text(u, ok)
    \/ Store_Tick
    \/ Store_Maintenance


(***************************************************************************)
(* SpecFlow: the event handlers of main.py, one event at a time.  A        *)
(* handler runs from one await to the next in one step; each safe_send_* / *)
(* safe_edit_message call returns a message (ok) or None.  A handler's     *)
(* locals are reset once it no longer reads them.                          *)
(***************************************************************************)
\* what json.loads and the validation loop make of the text
Payloads ==
    {[kind |-> k, n |-> 0] : k \in {"malformed", "fault", "no_questions", "no_valid"}}
    \cup {[kind |-> "batch", n |-> n] : n \in 1..MaxQuestions}

NoPayload == [kind |-> "none", n |-> 0]

Between == h_pc \in {"idle", "returned"}

BeginEvent(ev, u) ==
    /\ Between
    /\ events < MaxEvents
    /\ events' = events + 1
    /\ h_event' = ev
    /\ h_user' = u
    /\ last_notice' = "none"

FlowOnly == UNCHANGED <<apiVars, raceVars, historyVars, sideVars>>

\* a step that only sends: notice k goes out, the handler moves to pc
Send(k, pc) ==
    /\ last_notice' = k
    /\ h_pc' = pc
    /\ UNCHANGED <<storeVars, h_event, h_user, h_entry, h_data, events>>
    /\ FlowOnly

KeepBatch == UNCHANGED <<h_payload, is_anonymous, processing_msg, q_i,
                         success_count, polls, delays>>

\* /start arrives: start_command lines 608-612
StartCommand(u) ==
    /\ BeginEvent("start", u)
    /\ h_entry' = StateOf(user_states, u)
    /\ SetMaps(TouchAndChoose(Maps, u, now))
    /\ h_pc' = "st_welcome"
    /\ UNCHANGED <<now, last_cleanup, h_data>>
    /\ KeepBatch
    /\ FlowOnly

\* start_command lines 616-629: the welcome message
StWelcome(ok) ==
    /\ h_pc = "st_welcome"
    /\ Send("welcome", IF ok THEN "sel_prompt" ELSE "st_fallback")
    /\ KeepBatch

StFallback ==
    /\ h_pc = "st_fallback"
    /\ Send("welcome_plain", "returned")
    /\ KeepBatch

\* show_quiz_type_selection lines 653-665
SelPrompt(ok) ==
    /\ h_pc = "sel_prompt"
    /\ Send("selection", IF ok THEN "returned" ELSE "sel_fallback")
    /\ KeepBatch

SelFallback ==
    /\ h_pc = "sel_fallback"
    /\ Send("selection_plain", "returned")
    /\ KeepBatch

\* A callback query arrives (handle_quiz_type_selection)
CallbackQuery(u, d) ==
    /\ BeginEvent("select", u)
    /\ h_data' = d
    /\ h_entry' = StateOf(user_states, u)
    /\ h_pc' = "cb_answer"
    /\ UNCHANGED storeVars
    /\ KeepBatch
    /\ FlowOnly

\* lines 679-689: query.answer() returns or raises (ignored); then the
\* touch, the preference and the state
CbAnswer ==
    /\ h_pc = "cb_answer"
    /\ SetMaps(TouchAndSelect(Maps, h_user, h_data, now))
    /\ h_pc' = "cb_edit"
    /\ UNCHANGED <<now, last_cleanup, h_event, h_user, h_entry, h_data,
                   last_notice, events>>
    /\ KeepBatch
    /\ FlowOnly

\* lines 694-717
CbEdit(ok) ==
    /\ h_pc = "cb_edit"
    /\ Send("selected", IF ok THEN "cb_template" ELSE "cb_fallback")
    /\ KeepBatch

CbTemplate ==
    /\ h_pc = "cb_template"
    /\ Send("template", "cb_instr")
    /\ KeepBatch

CbInstr ==
    /\ h_pc = "cb_instr"
    /\ Send("instructions", "returned")
    /\ KeepBatch

CbFallback ==
    /\ h_pc = "cb_fallback"
    /\ Send("selected_plain", "returned")
    /\ KeepBatch

\* A text message arrives (handle_json_message lines 976-994)
TextMessage(u, p) ==
    /\ BeginEvent("json", u)
    /\ \E r \in {TouchResult(u)} :
          /\ SetMaps(r)
          /\ h_entry' = StateOf(r.st, u)
          /\ IF StateOf(r.st, u) # "waiting_for_json"
             THEN /\ h_pc' = "js_prompt"
                  /\ UNCHANGED <<is_anonymous, h_payload>>
             ELSE /\ h_pc' = "js_processing"
                  /\ h_payload' = p
                  /\ is_anonymous' = IF u \in DOMAIN r.pr THEN r.pr[u] ELSE TRUE
    /\ UNCHANGED <<now, last_cleanup, h_data, processing_msg, q_i, success_count,
                   polls, delays>>
    /\ FlowOnly

\* lines 989-992: the prompt; start_command when it was delivered
JsPrompt(ok) ==
    /\ h_pc = "js_prompt"
    /\ last_notice' = "start_properly"
    /\ IF ok
       THEN /\ SetMaps(TouchAndChoose(Maps, h_user, now))
            /\ h_pc' = "st_welcome"
       ELSE /\ h_pc' = "returned"
            /\ UNCHANGED <<user_activity, user_states, user_preferences>>
    /\ UNCHANGED <<now, last_cleanup, h_event, h_user, h_entry, h_data, events>>
    /\ KeepBatch
    /\ FlowOnly

\* A mutant of AfterNotice: the generic except clause forgets restart_cycle.
AfterNoticeNoRestart(kind) == IF kind = "fault" THEN "returned" ELSE "rc_enter"

\* where handle_json_message goes once the outcome's message is out: every
\* branch ends in asyncio.sleep(1) and restart_cycle
AfterNotice(kind) == "rc_enter"

\* lines 1005-1126: after the processing message, json.loads and validation
AfterProcessing(p, msg) ==
    IF p.kind = "batch"
    THEN IF msg THEN "js_validated" ELSE "sq_send"
    ELSE "js_reject"

\* lines 996-1003
JsProcessing(ok) ==
    /\ h_pc = "js_processing"
    /\ processing_msg' = ok
    /\ Send("processing", IF ok THEN AfterProcessing(h_payload, TRUE)
                          ELSE "js_processing_fb")
    /\ UNCHANGED <<h_payload, is_anonymous, q_i, success_count, polls, delays>>

JsProcessingFb ==
    /\ h_pc = "js_processing_fb"
    /\ Send("processing_plain", AfterProcessing(h_payload, FALSE))
    /\ KeepBatch

ResetBatch ==
    /\ h_payload' = NoPayload
    /\ is_anonymous' = TRUE
    /\ processing_msg' = FALSE
    /\ q_i' = 0
    /\ success_count' = 0
    /\ polls' = <<>>
    /\ delays' = <<>>

\* the rejection's message: lines 1023-1034, 1102-1113, 1161-1172, 1177-1190
JsReject ==
    /\ h_pc = "js_reject"
    /\ Send(h_payload.kind, AfterNotice(h_payload.kind))
    /\ ResetBatch

\* lines 1121-1126
JsValidated ==
    /\ h_pc = "js_validated"
    /\ Send("validated", "sq_send")
    /\ KeepBatch

\* A mutant of SqNext: the batch is abandoned at the first failed poll.
SqNextAbort(i, n, ok) == IF ok /\ i + 1 < n THEN "sq_send" ELSE "js_completion"

\* send_quiz_questions line 503: the for loop goes on to the next question
\* whatever safe_send_poll returned, and ends after the last one
SqNext(i, n, ok) == IF i + 1 < n THEN "sq_send" ELSE "js_completion"

\* A mutant of PollFlag: the stored preference is read again for each poll.
PollFlagStored(local, pr, u) == IF u \in DOMAIN pr THEN pr[u] ELSE TRUE

\* send_quiz_questions line 526: the poll's flag is the is_anonymous argument,
\* the value handle_json_message read at line 994
PollFlag(local, pr, u) == local

\* A mutant of AdaptiveDelay: the short delay whenever any send succeeded.
AdaptiveDelayAny(sc, i) == IF sc > 0 THEN 100 ELSE 500

\* send_quiz_questions lines 542-546: the sleep after question i, in ms, with
\* sc sends successful so far
AdaptiveDelay(sc, i) == IF sc = i + 1 THEN 100 ELSE 500

\* send_quiz_questions lines 503-546: one question
SqSend(ok) ==
    /\ h_pc = "sq_send"
    /\ q_i < h_payload.n
    /\ polls' = Append(polls, [i |-> q_i,
                               anonymous |-> PollFlag(is_anonymous, user_preferences, h_user),
                               ok |-> ok])
    /\ \E sc \in {IF ok THEN success_count + 1 ELSE success_count} :
          /\ success_count' = sc
          /\ delays' = Append(delays, AdaptiveDelay(sc, q_i))
    /\ q_i' = q_i + 1
    /\ h_pc' = SqNext(q_i, h_payload.n, ok)
    /\ UNCHANGED <<storeVars, h_event, h_user, h_entry, h_data, h_payload,
                   is_anonymous, processing_msg, last_notice, events>>
    /\ FlowOnly

\* lines 1131-1159
JsCompletion ==
    /\ h_pc = "js_completion"
    /\ \E k \in {IF success_count > 0 THEN "sent" ELSE "send_failed"} :
          Send(k, AfterNotice(k))
    /\ ResetBatch

\* restart_cycle lines 946-948
RcEnter ==
    /\ h_pc = "rc_enter"
    /\ SetMaps(TouchAndChoose(Maps, h_user, now))
    /\ h_pc' = "rc_msg"
    /\ UNCHANGED <<now, last_cleanup, h_event, h_user, h_entry, h_data,
                   last_notice, events>>
    /\ KeepBatch
    /\ FlowOnly

\* restart_cycle lines 952-965
RcMsg(ok) ==
    /\ h_pc = "rc_msg"
    /\ Send("ready", IF ok THEN "rc_welcome" ELSE "rc_fallback")
    /\ KeepBatch

RcWelcome(ok) ==
    /\ h_pc = "rc_welcome"
    /\ Send("welcome", IF ok THEN "sel_prompt" ELSE "returned")
    /\ KeepBatch

RcFallback ==
    /\ h_pc = "rc_fallback"
    /\ Send("ready_plain", "returned")
    /\ KeepBatch

\* Once the clock moves or a pass runs, the handler is no longer "just
\* returned".
Settle == h_pc' = IF h_pc = "returned" THEN "idle" ELSE h_pc

\* time.time() moves on: between events, and while a batch is being sent
\* (up to 50 polls with retries).  The rest of a handler is a handful of
\* sends, each at most max_retries attempts of request_timeout plus a wait
\* of at most 60 s, which stays under the TTL.
Tick ==
    /\ now < MaxTime
    /\ h_pc \in {"idle", "returned", "sq_send"}
    /\ now' = now + 1
    /\ Settle
    /\ UNCHANGED <<user_activity, user_states, user_preferences, last_cleanup,
                   h_event, h_user, h_entry, h_data, last_notice, events>>
    /\ KeepBatch
    /\ FlowOnly

\* maintenance_worker lines 231-233 with the eviction pass run as a whole
MaintenancePass ==
    /\ now - last_cleanup > cleanup_interval
    /\ SetMaps(aggressive_cleanup(user_activity, user_states, user_preferences, now))
    /\ last_cleanup' = now
    /\ Settle
    /\ UNCHANGED <<now, h_event, h_user, h_entry, h_data, last_notice, events>>
    /\ KeepBatch
    /\ FlowOnly

FlowNext ==
    \/ \E u \in Users : StartCommand(u)
    \/ \E ok \in BOOLEAN : StWelcome(ok)
    \/ StFallback
    \/ \E ok \in BOOLEAN : SelPrompt(ok)
    \/ SelFallback
    \/ \E u \in Users, d \in CallbackData : CallbackQuery(u, d)
    \/ CbAnswer
    \/ \E ok \in BOOLEAN : CbEdit(ok)
    \/ CbTemplate
    \/ CbInstr
    \/ CbFallback
    \/ \E u \in Users, p \in Payloads : TextMessage(u, p)
    \/ \E ok \in BOOLEAN : JsPrompt(ok)
    \/ \E ok \in BOOLEAN : JsProcessing(ok)
    \/ JsProcessingFb
    \/ JsReject
    \/ JsValidated
    \/ \E ok \in BOOLEAN : SqSend(ok)
    \/ JsCompletion
    \/ RcEnter
    \/ \E ok \in BOOLEAN : RcMsg(ok)
    \/ \E ok \in BOOLEAN : RcWelcome(ok)
    \/ RcFallback
    \/ Tick
    \/ MaintenancePass

(***************************************************************************)
(* SpecRace: the maintenance thread (start_background_tasks) runs          *)
(* aggressive_cleanup while the event loop's thread runs a handler.  No    *)
(* lock guards the three dicts, so the interpreter may switch threads      *)
(* between any two statements.  The pass is taken statement by statement;  *)
(* a comprehension takes two steps, its iteration and the assignment of    *)
(* what it built.  A dict that changes size while it is iterated raises    *)
(* RuntimeError, which the pass catches by clearing everything.  The       *)
(* handler's statements are those that use the maps; the pass a handler's  *)
(* own update_user_activity starts is run as a whole, which leaves out     *)
(* interleavings but adds none.                                            *)
(***************************************************************************)
RaceOnly == UNCHANGED <<apiVars, handlerVars, sideVars, lastEviction, passLeft>>

MaintLocals == <<m_pc, m_time, m_snap, m_broken, m_inactive, m_keep, m_new>>

HandlerLocals == <<r_ops, r_user, r_data, overlap>>

StartOps == <<"touch_set", "touch_len", "state_choosing">>
SelectOps == <<"touch_set", "touch_len", "pref", "state_waiting">>
TextOps == <<"touch_set", "touch_len", "read_state">>

\* the dict the pass is iterating at m_pc
Iterating(pc) ==
    CASE pc = "scan"        -> "activity"
      [] pc = "act_build"   -> "activity"
      [] pc = "pref_build"  -> "prefs"
      [] pc = "state_build" -> "states"
      [] OTHER              -> "none"

\* An event arrives and its handler starts
R_Begin(ops, u, d) ==
    /\ r_ops = <<>>
    /\ events < MaxEvents
    /\ events' = events + 1
    /\ r_ops' = ops
    /\ r_user' = u
    /\ r_data' = d
    /\ UNCHANGED <<storeVars, MaintLocals, overlap, lastTouch, h_pc, h_event, h_user,
                   h_entry, h_data, h_payload, is_anonymous, processing_msg, q_i,
                   success_count, polls, delays, last_notice>>
    /\ UNCHANGED <<apiVars, sideVars, lastEviction, passLeft>>

R_Rest ==
    /\ overlap' = (overlap \/ m_pc # "idle")
    /\ UNCHANGED <<now, last_cleanup, m_pc, m_time, m_snap, m_inactive, m_keep, m_new,
                   r_user, r_data>>
    /\ RaceOnly

\* update_user_activity line 256
R_TouchSet ==
    /\ r_ops # <<>> /\ Head(r_ops) = "touch_set"
    /\ user_activity' = SetActivity(user_activity, r_user, now)
    /\ lastTouch' = [lastTouch EXCEPT ![r_user] = now]
    /\ m_broken' = (m_broken \/ (Iterating(m_pc) = "activity"
                                  /\ r_user \notin ActivityKeys(user_activity)))
    /\ r_ops' = Tail(r_ops)
    /\ UNCHANGED <<user_states, user_preferences>>
    /\ R_Rest

\* update_user_activity lines 259-260
R_TouchLen ==
    /\ r_ops # <<>> /\ Head(r_ops) = "touch_len"
    /\ IF Len(user_activity) > max_stored_users
       THEN \E r \in {aggressive_cleanup(user_activity, user_states,
                                          user_preferences, now)} :
               /\ SetMaps(r)
               /\ m_broken' =
                    (m_broken
                     \/ (~r.capacity /\
                         \/ Iterating(m_pc) = "activity" /\ Len(r.act) # Len(user_activity)
                         \/ Iterating(m_pc) = "prefs" /\ DOMAIN r.pr # DOMAIN user_preferences
                         \/ Iterating(m_pc) = "states" /\ DOMAIN r.st # DOMAIN user_states))
       ELSE UNCHANGED <<user_activity, user_states, user_preferences, m_broken>>
    /\ r_ops' = Tail(r_ops)
    /\ UNCHANGED lastTouch
    /\ R_Rest

\* handle_quiz_type_selection line 688
R_Pref ==
    /\ r_ops # <<>> /\ Head(r_ops) = "pref"
    /\ user_preferences' = Put(user_preferences, r_user, r_data = "anonymous_true")
    /\ m_broken' = (m_broken \/ (Iterating(m_pc) = "prefs"
                                  /\ r_user \notin DOMAIN user_preferences))
    /\ r_ops' = Tail(r_ops)
    /\ UNCHANGED <<user_activity, user_states, lastTouch>>
    /\ R_Rest

\* start_command line 612, restart_cycle line 948,
\* handle_quiz_type_selection line 689
R_State ==
    /\ r_ops # <<>> /\ Head(r_ops) \in {"state_choosing", "state_waiting"}
    /\ user_states' = Put(user_states, r_user,
                          IF Head(r_ops) = "state_choosing" THEN "choosing_type"
                          ELSE "waiting_for_json")
    /\ m_broken' = (m_broken \/ (Iterating(m_pc) = "states"
                                  /\ r_user \notin DOMAIN user_states))
    /\ r_ops' = Tail(r_ops)
    /\ UNCHANGED <<user_activity, user_preferences, lastTouch>>
    /\ R_Rest

\* handle_json_message line 988: restart_cycle follows when the state is
\* waiting_for_json, start_command when the prompt was delivered (ok)
R_ReadState(ok) ==
    /\ r_ops # <<>> /\ Head(r_ops) = "read_state"
    /\ r_ops' = IF StateOf(user_states, r_user) = "waiting_for_json" \/ ok
                THEN StartOps ELSE <<>>
    /\ UNCHANGED <<user_activity, user_states, user_preferences, lastTouch, m_broken>>
    /\ R_Rest

M_Rest ==
    /\ UNCHANGED <<now, HandlerLocals, lastTouch, events>>
    /\ RaceOnly

\* maintenance_worker line 231 and aggressive_cleanup lines 268-269; the
\* list comprehension of line 272 starts iterating user_activity
M_Begin ==
    /\ m_pc = "idle"
    /\ now - last_cleanup > cleanup_interval
    /\ m_time' = now
    /\ m_snap' = user_activity
    /\ m_broken' = FALSE
    /\ m_pc' = "scan"
    /\ UNCHANGED <<user_activity, user_states, user_preferences, last_cleanup,
                   m_inactive, m_keep, m_new>>
    /\ M_Rest

RECURSIVE UidsOf(_)
UidsOf(act) == IF act = <<>> THEN <<>> ELSE <<Head(act).uid>> \o UidsOf(Tail(act))

\* lines 272-275: the iteration ends, with inactive_users or RuntimeError
M_Scan ==
    /\ m_pc = "scan"
    /\ IF m_broken
       THEN /\ m_pc' = "clear_pref"
            /\ UNCHANGED m_inactive
       ELSE \E inactive \in {Inactive(m_snap, m_time)} :
               /\ m_inactive' = UidsOf(SelectSeqBy(m_snap, inactive))
               /\ m_pc' = IF inactive = {} THEN "len" ELSE "pop_pref"
    /\ m_snap' = <<>>
    /\ m_broken' = FALSE
    /\ UNCHANGED <<user_activity, user_states, user_preferences, last_cleanup,
                   m_time, m_keep, m_new>>
    /\ M_Rest

\* line 279
M_PopPref ==
    /\ m_pc = "pop_pref"
    /\ user_preferences' = Pop(user_preferences, Head(m_inactive))
    /\ m_pc' = "pop_state"
    /\ UNCHANGED <<user_activity, user_states, last_cleanup, m_time, m_snap, m_broken,
                   m_inactive, m_keep, m_new>>
    /\ M_Rest

\* line 280
M_PopState ==
    /\ m_pc = "pop_state"
    /\ user_states' = Pop(user_states, Head(m_inactive))
    /\ m_pc' = "pop_act"
    /\ UNCHANGED <<user_activity, user_preferences, last_cleanup, m_time, m_snap,
                   m_broken, m_inactive, m_keep, m_new>>
    /\ M_Rest

\* line 281
M_PopAct ==
    /\ m_pc = "pop_act"
    /\ user_activity' = SelectSeqBy(user_activity,
                                    ActivityKeys(user_activity) \ {Head(m_inactive)})
    /\ m_inactive' = Tail(m_inactive)
    /\ m_pc' = IF Tail(m_inactive) = <<>> THEN "len" ELSE "pop_pref"
    /\ UNCHANGED <<user_states, user_preferences, last_cleanup, m_time, m_snap,
                   m_broken, m_keep, m_new>>
    /\ M_Rest

\* the pass is over: force_cleanup sets last_cleanup (line 112)
M_Finish ==
    /\ m_pc' = "idle"
    /\ last_cleanup' = now
    /\ m_time' = 0
    /\ m_snap' = <<>>
    /\ m_broken' = FALSE
    /\ m_inactive' = <<>>
    /\ m_keep' = {}
    /\ m_new' = <<>>

\* line 284 when the store is not over its capacity
M_LenUnder ==
    /\ m_pc = "len"
    /\ Len(user_activity) <= max_stored_users
    /\ M_Finish
    /\ UNCHANGED <<user_activity, user_states, user_preferences>>
    /\ M_Rest

\* lines 284-292: over capacity; sorted() and keep_users, and the
\* comprehension of line 295 starts iterating user_preferences
M_Sort ==
    /\ m_pc = "len"
    /\ Len(user_activity) > max_stored_users
    /\ m_keep' = ActivityKeys(SubSeq(sorted_users(user_activity), 1,
                                     KeepCount(Len(user_activity))))
    /\ m_snap' = user_preferences
    /\ m_broken' = FALSE
    /\ m_pc' = "pref_build"
    /\ UNCHANGED <<user_activity, user_states, user_preferences, last_cleanup,
                   m_time, m_inactive, m_new>>
    /\ M_Rest

\* a comprehension's iteration ends: the new dict is built, or RuntimeError
M_Built(pc, next) ==
    /\ m_pc = pc
    /\ IF m_broken
       THEN /\ m_pc' = "clear_pref"
            /\ UNCHANGED m_new
       ELSE /\ m_new' = IF pc = "act_build" THEN SelectSeqBy(m_snap, m_keep)
                        ELSE Restrict(m_snap, m_keep)
            /\ m_pc' = next
    /\ m_snap' = <<>>
    /\ m_broken' = FALSE
    /\ UNCHANGED <<user_activity, user_states, user_preferences, last_cleanup,
                   m_time, m_inactive, m_keep>>
    /\ M_Rest

\* lines 295-298: self.user_preferences = {...}; line 299 starts iterating
M_AssignPref ==
    /\ m_pc = "pref_assign"
    /\ user_preferences' = m_new
    /\ m_snap' = user_states
    /\ m_new' = <<>>
    /\ m_pc' = "state_build"
    /\ UNCHANGED <<user_activity, user_states, last_cleanup, m_time, m_broken,
                   m_inactive, m_keep>>
    /\ M_Rest

\* lines 299-302: self.user_states = {...}; line 303 starts iterating
M_AssignState ==
    /\ m_pc = "state_assign"
    /\ user_states' = m_new
    /\ m_snap' = user_activity
    /\ m_new' = <<>>
    /\ m_pc' = "act_build"
    /\ UNCHANGED <<user_activity, user_preferences, last_cleanup, m_time, m_broken,
                   m_inactive, m_keep>>
    /\ M_Rest

\* lines 303-306: self.user_activity = {...}
M_AssignAct ==
    /\ m_pc = "act_assign"
    /\ user_activity' = m_new
    /\ M_Finish
    /\ UNCHANGED <<user_states, user_preferences>>
    /\ M_Rest

\* lines 310-315: the emergency clears
M_ClearPref ==
    /\ m_pc = "clear_pref"
    /\ user_preferences' = EmptyMap
    /\ m_pc' = "clear_state"
    /\ UNCHANGED <<user_activity, user_states, last_cleanup, m_time, m_snap, m_broken,
                   m_inactive, m_keep, m_new>>
    /\ M_Rest

M_ClearState ==
    /\ m_pc = "clear_state"
    /\ user_states' = EmptyMap
    /\ m_pc' = "clear_act"
    /\ UNCHANGED <<user_activity, user_preferences, last_cleanup, m_time, m_snap,
                   m_broken, m_inactive, m_keep, m_new>>
    /\ M_Rest

M_ClearAct ==
    /\ m_pc = "clear_act"
    /\ user_activity' = <<>>
    /\ M_Finish
    /\ UNCHANGED <<user_states, user_preferences>>
    /\ M_Rest

\* time.time() moves on: between events and across a handler's awaits, not
\* between the statements of lines 611-612, 687-689, 985-988 and 947-948
R_Tick ==
    /\ now < MaxTime
    /\ IF r_ops = <<>> THEN TRUE ELSE Head(r_ops) = "touch_set"
    /\ now' = now + 1
    /\ UNCHANGED <<user_activity, user_states, user_preferences, last_cleanup,
                   MaintLocals, HandlerLocals, lastTouch, events>>
    /\ RaceOnly

RaceNext ==
    \/ \E u \in Users : R_Begin(StartOps, u, "none")
    \/ \E u \in Users, d \in {"anonymous_true", "anonymous_false"} : R_Begin(SelectOps, u, d)
    \/ \E u \in Users : R_Begin(TextOps, u, "none")
    \/ R_TouchSet
    \/ R_TouchLen
    \/ R_Pref
    \/ R_State
    \/ \E ok \in BOOLEAN : R_ReadState(ok)
    \/ M_Begin
    \/ M_Scan
    \/ M_PopPref
    \/ M_PopState
    \/ M_PopAct
    \/ M_LenUnder
    \/ M_Sort
    \/ M_Built("pref_build", "pref_assign")
    \/ M_AssignPref
    \/ M_Built("state_build", "state_assign")
    \/ M_AssignState
    \/ M_Built("act_build", "act_assign")
    \/ M_AssignAct
    \/ M_ClearPref
    \/ M_ClearState
    \/ M_ClearAct
    \/ R_Tick

(***************************************************************************)
(* SpecValidate: what handle_json_message makes of one text message.  A    *)
(* JSON value is a record tagged with its Python type after json.loads:    *)
(* None, bool, int, float, str, list or dict.  A string is its content and *)
(* its length; a dict is a function on its keys.                           *)
(***************************************************************************)
JNull == [t |-> "null"]
JBool(b) == [t |-> "bool", b |-> b]
JInt(n) == [t |-> "int", n |-> n]
\* a number with a fractional part
JFloat == [t |-> "float"]
JStr(content, n) == [t |-> "str", s |-> content, len |-> n]
JList(items) == [t |-> "list", items |-> items]
JDict(f) == [t |-> "dict", f |-> f]

EmptyStr == JStr("", 0)

\* bool(v)
Truthy(v) ==
    CASE v.t = "null"  -> FALSE
      [] v.t = "bool"  -> v.b
      [] v.t = "int"   -> v.n # 0
      [] v.t = "float" -> TRUE
      [] v.t = "str"   -> v.len > 0
      [] v.t = "list"  -> Len(v.items) > 0
      [] v.t = "dict"  -> DOMAIN v.f # {}

\* isinstance(v, int): bool is a subclass of int
IsInt(v) == v.t \in {"int", "bool"}

\* the value of an int: True is 1 and False is 0
IntOf(v) == IF v.t = "bool" THEN (IF v.b THEN 1 ELSE 0) ELSE v.n

\* str(v): a str is itself; the text of another value has some length
str(v) ==
    CASE v.t = "str"   -> v
      [] v.t = "null"  -> JStr("None", 4)
      [] v.t = "bool"  -> IF v.b THEN JStr("True", 4) ELSE JStr("False", 5)
      [] v.t = "int"   -> JStr("int", IF v.n < 0 THEN 2 ELSE 1)
      [] v.t = "float" -> JStr("float", 3)
      [] v.t = "list"  -> JStr("list", 2 + 4 * Len(v.items))
      [] v.t = "dict"  -> JStr("dict", 2 + 8 * Cardinality(DOMAIN v.f))

\* A mutant of Truncate: nothing is cut.
TruncateNot(x, n) == x

\* x[:n] of a str
Truncate(x, n) == [x EXCEPT !.len = Min(@, n)]

\* items[:n] of a list
Slice(items, n) == SubSeq(items, 1, Min(n, Len(items)))

\* the accepted keys contained in a string as substrings
KeysWithin(content) ==
    CASE content = "quiz" -> {"q", "quiz"}
      [] content = "data" -> {"data"}
      [] OTHER            -> {}

\* key in x, for x a dict, a list or a str
Contains(x, key) ==
    CASE x.t = "dict" -> key \in DOMAIN x.f
      [] x.t = "list" -> \E i \in 1..Len(x.items) :
                             x.items[i].t = "str" /\ x.items[i].s = key
      [] x.t = "str"  -> key \in KeysWithin(x.s)
      [] OTHER        -> FALSE

\* the index of the first of keys that is in the set found, 0 when none is
FirstIndex(keys, found) ==
    LET hits == {i \in 1..Len(keys) : keys[i] \in found}
    IN  IF hits = {} THEN 0 ELSE CHOOSE i \in hits : \A j \in hits : i <= j

QuestionKeys == <<"all_q", "q", "questions", "all_questions", "quiz", "data">>
QuestionNames == {QuestionKeys[k] : k \in 1..Len(QuestionKeys)}
TextKeys == <<"q", "question", "text", "question_text">>
OptionKeys == <<"o", "options", "choices", "answers">>
CorrectKeys == <<"c", "correct", "correct_option_id", "answer", "correct_answer">>
ExplanationKeys == <<"e", "explanation", "desc", "description">>

MaxBatch == 50
TextLimit == 255
OptionLimit == 100
ExplanationLimit == 200
MinOptions == 2
MaxOptions == 4
PollMaxOptions == 10

\* lines 1010-1021: the probe of the accepted keys and the bare list.
\* `key in quiz_data` raises TypeError for None, bool, int and float, and
\* quiz_data[key] raises it for a list or a str that contains the key.
questions_lookup(quiz_data) ==
    IF quiz_data.t \in {"null", "bool", "int", "float"}
    THEN [raised |-> TRUE, questions |-> JNull]
    ELSE LET k == FirstIndex(QuestionKeys, {key \in QuestionNames : Contains(quiz_data, key)})
         IN  IF k # 0 /\ quiz_data.t # "dict"
             THEN [raised |-> TRUE, questions |-> JNull]
             ELSE LET found == IF k = 0 THEN JNull ELSE quiz_data.f[QuestionKeys[k]]
                  IN  [raised |-> FALSE,
                       questions |-> IF Truthy(found) THEN found
                                     ELSE IF quiz_data.t = "list" THEN quiz_data
                                     ELSE JList(<<>>)]

\* for key in keys: if key in question and question[key]: ...; break
FirstTruthy(d, keys) ==
    LET k == FirstIndex(keys, {key \in DOMAIN d : Truthy(d[key])})
    IN  IF k = 0 THEN JNull ELSE d[keys[k]]

\* for key in keys: if key in question and question[key] is not None: ...
FirstNotNone(d, keys) ==
    LET k == FirstIndex(keys, {key \in DOMAIN d : d[key].t # "null"})
    IN  IF k = 0 THEN JNull ELSE d[keys[k]]

\* A mutant of OptionsAccepted: any list of at least two options passes.
OptionsAcceptedAny(options) ==
    Truthy(options) /\ options.t = "list" /\ Len(options.items) >= MinOptions

\* line 1064, negated
OptionsAccepted(options) ==
    /\ Truthy(options)
    /\ options.t = "list"
    /\ Len(options.items) >= MinOptions
    /\ Len(options.items) <= MaxOptions

\* line 1078 and send_quiz_questions line 519, negated
CorrectAccepted(correct, n) ==
    IsInt(correct) /\ IntOf(correct) >= 0 /\ IntOf(correct) < n

\* lines 1043-1096: the body of the validation loop for one entry; the
\* records it appends to valid_questions, none or one
valid_question(question) ==
    IF question.t # "dict" THEN <<>>
    ELSE LET d == question.f
             q_text == FirstTruthy(d, TextKeys)
             options == FirstTruthy(d, OptionKeys)
             supplied == FirstNotNone(d, CorrectKeys)
             given == IF supplied.t = "null" THEN JInt(0) ELSE supplied
             correct == IF CorrectAccepted(given, Len(options.items))
                        THEN given ELSE JInt(0)
             explanation == FirstTruthy(d, ExplanationKeys)
             kept == Slice(options.items, MaxOptions)
         IN  IF ~Truthy(q_text) THEN <<>>
             ELSE IF ~OptionsAccepted(options) THEN <<>>
             ELSE << [q |-> Truncate(str(q_text), TextLimit),
                      o |-> [i \in 1..Len(kept) |-> Truncate(str(kept[i]), OptionLimit)],
                      c |-> correct,
                      e |-> IF Truthy(explanation)
                            THEN Truncate(str(explanation), ExplanationLimit)
                            ELSE EmptyStr] >>

\* lines 1041-1100: valid_questions of questions[:50]
RECURSIVE valid_questions_of(_)
valid_questions_of(items) ==
    IF items = <<>> THEN <<>>
    ELSE valid_question(Head(items)) \o valid_questions_of(Tail(items))

valid_questions(questions) == valid_questions_of(Slice(questions, MaxBatch))

DefaultOptions == <<JStr("Option A", 8), JStr("Option B", 8)>>

\* send_quiz_questions lines 506-533 for one record of valid_questions: the
\* poll_params it builds, none when it skips the record
poll_params(rec, anonymous) ==
    LET question_text == IF Truthy(rec.q) THEN rec.q ELSE JStr("Question i", 10)
        options == IF Len(rec.o) > 0 THEN rec.o ELSE DefaultOptions
        kept == Slice(options, MaxOptions)
    IN  IF Len(options) < MinOptions THEN <<>>
        ELSE << [question |-> Truncate(str(question_text), TextLimit),
                 options |-> [i \in 1..Len(kept) |-> Truncate(str(kept[i]), OptionLimit)],
                 correct_option_id |-> IF CorrectAccepted(rec.c, Len(options))
                                       THEN IntOf(rec.c) ELSE 0,
                 is_anonymous |-> anonymous,
                 explanation |-> IF Truthy(rec.e)
                                 THEN Truncate(str(rec.e), ExplanationLimit)
                                 ELSE EmptyStr] >>

\* safe_send_poll lines 455-479: the poll_params bot.send_poll is called with
safe_send_poll(pp) ==
    LET options == IF Len(pp.options) < MinOptions THEN DefaultOptions ELSE pp.options
        kept == Slice(options, PollMaxOptions)
    IN  [pp EXCEPT !.question = Truncate(@, TextLimit),
                   !.options = [i \in 1..Len(kept) |-> Truncate(kept[i], OptionLimit)],
                   !.correct_option_id = IF @ < 0 \/ @ >= Len(kept) THEN 0 ELSE @,
                   !.explanation = Truncate(@, ExplanationLimit)]

\* send_quiz_questions lines 503-536 over questions[:50]: the polls sent
RECURSIVE polls_of(_, _)
polls_of(batch, anonymous) ==
    IF batch = <<>> THEN <<>>
    ELSE LET pp == poll_params(Head(batch), anonymous)
         IN  (IF pp = <<>> THEN <<>> ELSE <<safe_send_poll(pp[1])>>)
             \o polls_of(Tail(batch), anonymous)

send_quiz_questions(batch, anonymous) == polls_of(Slice(batch, MaxBatch), anonymous)

Outcome(kind, batch) == [kind |-> kind, batch |-> batch]

\* lines 1006-1193: the branch taken for user_message and valid_questions
validate(text) ==
    IF ~text.json THEN Outcome("malformed", <<>>)
    ELSE LET found == questions_lookup(text.value)
         IN  IF found.raised THEN Outcome("fault", <<>>)
             ELSE IF ~Truthy(found.questions) \/ found.questions.t # "list"
             THEN Outcome("no_questions", <<>>)
             ELSE LET batch == valid_questions(found.questions.items)
                  IN  IF batch = <<>> THEN Outcome("no_valid", <<>>)
                      ELSE Outcome("batch", batch)

(***************************************************************************)
(* The messages SpecValidate receives.  Each family makes the cases of one *)
(* part of handle_json_message happen.                                     *)
(***************************************************************************)
Dict1(k, v) == JDict(k :> v)
Dict2(k1, v1, k2, v2) == JDict((k1 :> v1) @@ (k2 :> v2))

\* n options "1", "2", ..., each of the given length
OptionsOf(n, len) == JList([i \in 1..n |-> JStr(ToString(i), len)])

Parsed(v) == [json |-> TRUE, value |-> v]
Unparseable == [json |-> FALSE]

\* the example {"all_q":[{"q":"2+2?","o":["3","4"],"c":1}]}, its options named 1 and 2
ExampleEntry == JDict(("q" :> JStr("2+2?", 4)) @@ ("o" :> OptionsOf(2, 1)) @@ ("c" :> JInt(1)))
ExamplePayload == Dict1("all_q", JList(<<ExampleEntry>>))

\* a correct index of every JSON type, in range and out of range
IndexValues ==
    {JInt(n) : n \in -1..5} \cup {JBool(TRUE), JBool(FALSE), JFloat, JStr("1", 1), JNull}

IndexEntries ==
    {JDict(("q" :> JStr("2+2?", 4)) @@ ("o" :> OptionsOf(n, 1)) @@ ("c" :> c)) :
        n \in MinOptions..MaxOptions, c \in IndexValues}
    \cup {JDict(("q" :> JStr("2+2?", 4)) @@ ("o" :> OptionsOf(n, 1))) : n \in MinOptions..MaxOptions}
    \cup {JDict(("q" :> JStr("2+2?", 4)) @@ ("o" :> OptionsOf(2, 1))
                @@ ("c" :> JNull) @@ ("correct" :> JInt(1)))}

\* the entry with text id: valid when it has 2 to 4 options
EntryOf(id, n) == JDict(("q" :> JStr(id, 2)) @@ ("o" :> OptionsOf(n, 1)))

FilterEntries ==
    {EntryOf("ok", n) : n \in 1..5}
    \cup {JDict(("question" :> JStr("long", 4)) @@ ("options" :> OptionsOf(4, 1))
                @@ ("answer" :> JInt(3)) @@ ("explanation" :> JStr("why", 3))),
          Dict1("o", OptionsOf(2, 1)),
          Dict1("q", JStr("alone", 5)),
          Dict2("q", JStr("", 0), "o", OptionsOf(2, 1)),
          Dict2("q", JStr("text", 4), "o", JStr("abc", 3)),
          Dict2("q", JInt(7), "o", JList(<<JStr("a", 1), JInt(2)>>)),
          JStr("entry", 5),
          JNull}

\* 51 entries: entry i is valid exactly when i is in good
LongList(good) ==
    JList([i \in 1..(MaxBatch + 1) |-> EntryOf(ToString(i), IF i \in good THEN 2 ELSE 1)])

FilterLists ==
    {JList(<<>>)}
    \cup {JList(<<a>>) : a \in FilterEntries}
    \cup {JList(<<a, b>>) : a \in FilterEntries, b \in FilterEntries}
    \cup {LongList(good) : good \in {1..(MaxBatch + 1), {MaxBatch + 1},
                                     {MaxBatch, MaxBatch + 1}, {1, MaxBatch + 1}}}

TextLengths == {1, TextLimit, TextLimit + 1, 300}
OptionLengths == {1, OptionLimit, OptionLimit + 1}
ExplanationLengths == {0, ExplanationLimit, ExplanationLimit + 1}

LengthEntries ==
    {JDict(("q" :> JStr("long", tl)) @@ ("o" :> OptionsOf(n, ol)) @@ ("e" :> JStr("why", el))) :
        tl \in TextLengths, ol \in OptionLengths, el \in ExplanationLengths, n \in {2, 4}}

\* what an accepted key of the payload can hold
KeyValues ==
    {JList(<<>>), JList(<<ExampleEntry>>), JList(<<JNull>>), JStr("title", 5), JNull,
     Dict1("q", JStr("nested", 6))}

KeyPairs == {<<"all_q", "questions">>, <<"q", "questions">>, <<"quiz", "data">>,
             <<"questions", "all_questions">>}

Shapes ==
    {JNull, JBool(TRUE), JBool(FALSE), JInt(0), JInt(42), JFloat,
     JStr("hello", 5), JStr("quiz", 4), JStr("data", 4), JStr("", 0),
     JList(<<JStr("all_q", 5)>>), JList(<<JStr("hello", 5)>>), JList(<<JInt(1), JInt(2)>>),
     JDict(<<>>), Dict1("foo", JStr("bar", 3))}
    \cup {Dict1(QuestionKeys[k], v) : k \in 1..Len(QuestionKeys), v \in KeyValues}
    \cup {Dict2(kp[1], v1, kp[2], v2) : kp \in KeyPairs, v1 \in KeyValues, v2 \in KeyValues}

Messages ==
    {Unparseable}
    \cup {Parsed(v) : v \in Shapes}
    \cup {Parsed(l) : l \in FilterLists}
    \cup {Parsed(Dict1("all_q", l)) : l \in FilterLists}
    \cup {Parsed(Dict1("all_q", JList(<<e>>))) : e \in IndexEntries \cup LengthEntries}

ValidateInit ==
    /\ v_pc = "idle"
    /\ v_text = Unparseable
    /\ v_result = Outcome("none", <<>>)
    /\ v_polls = <<>>

\* line 980: user_message = update.message.text, in state WAITING_FOR_JSON
V_Receive ==
    /\ v_pc = "idle"
    /\ \E text \in Messages : v_text' = text
    /\ v_pc' = "received"
    /\ UNCHANGED <<v_result, v_polls>>

\* lines 1005-1193: parse, locate, validate and send, with the preference
\* of the user read at line 1128
V_Validate ==
    /\ v_pc = "received"
    /\ v_result' = validate(v_text)
    /\ \E anonymous \in BOOLEAN :
           v_polls' = send_quiz_questions(validate(v_text).batch, anonymous)
    /\ v_pc' = "done"
    /\ UNCHANGED v_text

ValidateOnly == <<apiVars, storeVars, handlerVars, raceVars, historyVars, faultVars,
                  webVars, signalVars, workerVars>>

ValidateNext ==
    \/ V_Receive /\ UNCHANGED ValidateOnly
    \/ V_Validate /\ UNCHANGED ValidateOnly

(***************************************************************************)
(* SpecFault: the try statements of the three handlers.  A handler is cut  *)
(* into regions, each a run of statements under the same try statements;   *)
(* any statement may raise an Exception.  f_frames is the stack of try     *)
(* statements around the current statement, innermost last, and f_faults   *)
(* the statements that raised since the handler was called.  The           *)
(* logger.warning calls of the except clauses are taken not to raise.      *)
(***************************************************************************)
Handlers == {"start_command", "handle_quiz_type_selection", "handle_json_message"}

\* the exceptions a statement raises: json.loads, the first statement of the
\* inner try, raises JSONDecodeError as well
Raised(h, r, step) ==
    IF h = "handle_json_message" /\ r = "inner" /\ step = 1
    THEN {"JSONDecodeError", "Exception"}
    ELSE {"Exception"}

\* the region a handler starts in
FirstRegion(h) ==
    CASE h = "start_command"              -> "body"
      [] h = "handle_quiz_type_selection" -> "answer"
      [] h = "handle_json_message"        -> "pre"

\* the statements of a region that call something
RegionSteps(h, r) ==
    CASE h = "start_command" /\ r = "body"                -> 5
      [] h = "start_command" /\ r = "fallback"            -> 1
      [] h = "handle_quiz_type_selection" /\ r = "answer" -> 1
      [] h = "handle_quiz_type_selection" /\ r = "body"   -> 6
      [] h = "handle_json_message" /\ r = "pre"           -> 6
      [] h = "handle_json_message" /\ r = "inner"         -> 9
      [] h = "handle_json_message" /\ r = "decode_except" -> 3
      [] h = "handle_json_message" /\ r = "generic_except" -> 3
      [] h = "handle_json_message" /\ r = "fallback"      -> 1

\* the region entered when region r runs to its end; "return" when the
\* handler ends there
RegionAfter(h, r) ==
    CASE h = "handle_quiz_type_selection" /\ r = "answer" -> "body"
      [] h = "handle_json_message" /\ r = "pre"           -> "inner"
      [] OTHER                                            -> "return"

\* the statements after which a handler returns early: the guards at lines
\* 605, 673, 973 and 977, and the state check at lines 988-992
ReturnsEarly(h, r, step) ==
    \/ r \in {"body", "answer", "pre"} /\ r = FirstRegion(h) /\ step = 1
    \/ h = "handle_json_message" /\ r = "pre" /\ step \in {2, 4}

\* A mutant of TryFrames: the fallback sends are not inside a try of their own.
TryFramesOpenFallback(h, r) ==
    CASE r = "fallback"                                   -> <<>>
      [] h = "handle_quiz_type_selection" /\ r = "answer" -> <<"outer", "answer_try">>
      [] h = "handle_json_message" /\ r = "inner"         -> <<"outer", "inner_try">>
      [] OTHER                                            -> <<"outer">>

\* the try statements around the statements of region r, outermost first:
\* lines 604, 633 (start_command), 672, 680 (handle_quiz_type_selection),
\* 972, 1006, 1198 (handle_json_message)
TryFrames(h, r) ==
    CASE r = "fallback"                                   -> <<"fallback_try">>
      [] h = "handle_quiz_type_selection" /\ r = "answer" -> <<"outer", "answer_try">>
      [] h = "handle_json_message" /\ r = "inner"         -> <<"outer", "inner_try">>
      [] OTHER                                            -> <<"outer">>

\* the region of the except clause of try statement t that catches exception
\* e; "return" when the clause only passes or logs and the handler ends
ExceptTarget(h, t, e) ==
    CASE t = "fallback_try"                               -> "return"
      [] t = "answer_try"                                 -> "body"
      [] t = "inner_try" /\ e = "JSONDecodeError"         -> "decode_except"
      [] t = "inner_try"                                  -> "generic_except"
      [] t = "outer" /\ h = "handle_quiz_type_selection"  -> "return"
      [] t = "outer"                                      -> "fallback"

FaultInit ==
    /\ f_handler = "none"
    /\ f_frames = <<>>
    /\ f_pc = [region |-> "none", step |-> 0]
    /\ f_exit = "none"
    /\ f_faults = <<>>
    /\ f_state = "none"
    /\ f_notice = "none"

\* the state a statement assigns once its call has returned: lines 611-612,
\* 687-689, and restart_cycle (line 947) called at lines 1160, 1175 and 1193;
\* "none" for a statement that assigns none
StateWritten(h, r, step) ==
    CASE h = "start_command" /\ r = "body" /\ step = 2              -> "choosing_type"
      [] h = "handle_quiz_type_selection" /\ r = "body" /\ step = 1 -> "waiting_for_json"
      [] h = "handle_json_message" /\ r = "inner" /\ step = 9       -> "choosing_type"
      [] h = "handle_json_message" /\ r = "decode_except" /\ step = 3  -> "choosing_type"
      [] h = "handle_json_message" /\ r = "generic_except" /\ step = 3 -> "choosing_type"
      [] OTHER                                                      -> "none"

\* the state check of handle_json_message (line 988): whether the handler
\* goes on after the statement, given the user's state
GoesOn(h, r, step, st) ==
    (h = "handle_json_message" /\ r = "pre" /\ step = 4) => st = "waiting_for_json"

\* the states the user may be in after an early return: at lines 988-992 the
\* nested start_command runs when the notice was delivered
StatesAfterReturn(h, r, step, st) ==
    IF h = "handle_json_message" /\ r = "pre" /\ step = 4
    THEN {st, "choosing_type"}
    ELSE {st}

\* the fallback sends at lines 635-638 and 1199-1202
NoticeAfter(r, notice) == IF r = "fallback" THEN "generic_failure" ELSE notice

\* control enters region r of the running handler, or the handler returns
Enter(r) ==
    IF r = "return"
    THEN /\ f_exit' = "returned"
         /\ f_pc' = [region |-> "none", step |-> 0]
         /\ f_frames' = <<>>
    ELSE /\ f_exit' = "running"
         /\ f_pc' = [region |-> r, step |-> 1]
         /\ f_frames' = TryFrames(f_handler, r)

\* the application calls a handler for the next update
F_Begin ==
    /\ f_exit \in {"none", "returned"}
    /\ \E h \in Handlers :
           /\ f_handler' = h
           /\ f_exit' = "running"
           /\ f_pc' = [region |-> FirstRegion(h), step |-> 1]
           /\ f_frames' = TryFrames(h, FirstRegion(h))
    /\ f_faults' = <<>>
    /\ f_state' \in {"none", "choosing_type", "waiting_for_json"}
    /\ f_notice' = "none"

\* the current statement completes
F_Step ==
    /\ f_exit = "running"
    /\ GoesOn(f_handler, f_pc.region, f_pc.step, f_state)
    /\ IF f_pc.step < RegionSteps(f_handler, f_pc.region)
       THEN /\ f_pc' = [f_pc EXCEPT !.step = @ + 1]
            /\ UNCHANGED <<f_frames, f_exit>>
       ELSE Enter(RegionAfter(f_handler, f_pc.region))
    /\ f_state' = IF StateWritten(f_handler, f_pc.region, f_pc.step) = "none"
                  THEN f_state
                  ELSE StateWritten(f_handler, f_pc.region, f_pc.step)
    /\ f_notice' = NoticeAfter(f_pc.region, f_notice)
    /\ UNCHANGED <<f_handler, f_faults>>

\* a return statement after the current statement
F_Return ==
    /\ f_exit = "running"
    /\ ReturnsEarly(f_handler, f_pc.region, f_pc.step)
    /\ (f_handler = "handle_json_message" /\ f_pc.step = 4)
           => ~GoesOn(f_handler, f_pc.region, f_pc.step, f_state)
    /\ Enter("return")
    /\ f_state' \in StatesAfterReturn(f_handler, f_pc.region, f_pc.step, f_state)
    /\ UNCHANGED <<f_handler, f_faults, f_notice>>

\* the current statement raises: the innermost try statement catches it, and
\* with no try statement around it the exception leaves the handler
F_Fault ==
    /\ f_exit = "running"
    /\ \E e \in Raised(f_handler, f_pc.region, f_pc.step) :
           /\ IF f_frames = <<>>
              THEN /\ f_exit' = "raised"
                   /\ UNCHANGED <<f_pc, f_frames>>
              ELSE Enter(ExceptTarget(f_handler, f_frames[Len(f_frames)], e))
           /\ f_faults' = Append(f_faults, [region |-> f_pc.region, step |-> f_pc.step, e |-> e])
    /\ f_notice' = NoticeAfter(f_pc.region, f_notice)
    /\ UNCHANGED <<f_handler, f_state>>

FaultOnly == <<apiVars, storeVars, handlerVars, raceVars, historyVars, validateVars,
               webVars, signalVars, workerVars>>

FaultNext ==
    \/ F_Begin /\ UNCHANGED FaultOnly
    \/ F_Step /\ UNCHANGED FaultOnly
    \/ F_Return /\ UNCHANGED FaultOnly
    \/ F_Fault /\ UNCHANGED FaultOnly

(***************************************************************************)
(* SpecHealth: the HealthMonitor under any sequence of record_success and  *)
(* record_failure calls, MaxRecords of them.                               *)
(***************************************************************************)
MaxRecords == 12

HealthRest == <<api_pc, attempt, outs, waits, reported, api_result, last_exception, calls,
                storeVars, handlerVars, raceVars, historyVars, sideVars>>

Recorded == health.api_success_count + health.api_failure_count

H_Success ==
    /\ Recorded < MaxRecords
    /\ health' = record_success(health)
    /\ UNCHANGED HealthRest

H_Failure ==
    /\ Recorded < MaxRecords
    /\ health' = record_failure(health)
    /\ UNCHANGED HealthRest

HealthNext == H_Success \/ H_Failure

(***************************************************************************)
(* SpecWebhook: flask_app.py.  Each update is one request, handled as a    *)
(* whole by webhook().  user_data is a sequence of sessions in the dict's  *)
(* insertion order: uid, last_activity t, state ("none" when the session   *)
(* has no state key) and anonymous ("unset" when it has no such key).      *)
(* MAX_USERS (100), USER_TTL (1800 s) and the cleanup period (every 100    *)
(* requests) are scaled down.                                              *)
(***************************************************************************)
MAX_USERS == 2
USER_TTL == 1
CleanupEvery == 2

MaxRequests == 4

WebPayloads == {"malformed", "fault", "no_questions", "batch"}

WebCallbackData == {"anon_true", "anon_false"}

\* user_data.get(user_id, {})
SessionOf(ud, u) ==
    IF u \in ActivityKeys(ud) THEN ud[ActivityOf(ud, u)]
    ELSE [uid |-> u, t |-> 0, state |-> "none", anonymous |-> "unset"]

\* user_data[user_id] = {...}: an existing key keeps its place
AssignSession(ud, u, session) ==
    IF u \in ActivityKeys(ud)
    THEN [ud EXCEPT ![ActivityOf(ud, u)] = session]
    ELSE Append(ud, session)

\* update_user_activity (lines 196-200) of flask_app.py
touch_user(ud, u, t) ==
    IF u \in ActivityKeys(ud)
    THEN [ud EXCEPT ![ActivityOf(ud, u)].t = t]
    ELSE Append(ud, [uid |-> u, t |-> t, state |-> "none", anonymous |-> "unset"])

\* A mutant of cleanup_old_users: the capacity cut of lines 69-78 is left out.
cleanup_ttl_only(ud, t) ==
    IF Len(ud) <= MAX_USERS THEN ud
    ELSE LET to_remove == {ud[i].uid : i \in {j \in 1..Len(ud) : t - ud[j].t > USER_TTL}}
         IN  SelectSeqBy(ud, ActivityKeys(ud) \ to_remove)

\* cleanup_old_users (lines 53-82) at time t
cleanup_old_users(ud, t) ==
    IF Len(ud) <= MAX_USERS THEN ud
    ELSE LET to_remove == {ud[i].uid : i \in {j \in 1..Len(ud) : t - ud[j].t > USER_TTL}}
             left == SelectSeqBy(ud, ActivityKeys(ud) \ to_remove)
         IN  IF Len(left) > MAX_USERS
             THEN SubSeq(sorted_users(left), 1, Min(Len(left), MAX_USERS \div 2))
             ELSE left

\* handle_start (lines 307-349): the session is replaced
handle_start(ud, u, t) ==
    AssignSession(ud, u, [uid |-> u, t |-> t, state |-> "choosing_type",
                          anonymous |-> "unset"])

\* handle_callback (lines 407-460)
handle_callback(ud, u, d, t) ==
    AssignSession(touch_user(ud, u, t), u,
                  [uid |-> u, t |-> t, state |-> "waiting_json",
                   anonymous |-> IF d = "anon_true" THEN "true" ELSE "false"])

\* handle_json (lines 462-547): the sessions it leaves and the message it
\* sends last
handle_json(ud, u, p, t) ==
    IF SessionOf(ud, u).state # "waiting_json"
    THEN [ud |-> ud, notice |-> "start_first"]
    ELSE IF p = "malformed" THEN [ud |-> ud, notice |-> "invalid_json"]
    ELSE IF p = "fault" THEN [ud |-> ud, notice |-> "error_processing"]
    ELSE IF p = "no_questions" THEN [ud |-> ud, notice |-> "no_questions"]
    ELSE [ud |-> AssignSession(ud, u, [uid |-> u, t |-> t, state |-> "choosing_type",
                                       anonymous |-> "unset"]),
          notice |-> "another_quiz"]

\* webhook lines 254-259: the request is counted and every CleanupEvery-th
\* request runs cleanup_old_users first
Counted(ud, n, t) == IF n % CleanupEvery = 0 THEN cleanup_old_users(ud, t) ELSE ud

WebInit ==
    /\ user_data = <<>>
    /\ w_now = 0
    /\ total_requests = 0
    /\ w_last = [kind |-> "none", user |-> 0, entry |-> "none", payload |-> "none",
                 notice |-> "none"]

WebOnly == <<apiVars, storeVars, handlerVars, raceVars, historyVars, validateVars,
             faultVars, signalVars, workerVars>>

\* a message whose text starts with /start
W_Start(u) ==
    /\ total_requests < MaxRequests
    /\ total_requests' = total_requests + 1
    /\ user_data' = handle_start(touch_user(Counted(user_data, total_requests + 1, w_now),
                                            u, w_now), u, w_now)
    /\ w_last' = [kind |-> "start", user |-> u, entry |-> SessionOf(user_data, u).state,
                  payload |-> "none", notice |-> "welcome"]
    /\ UNCHANGED <<w_now, WebOnly>>

\* a callback query from one of the two buttons
W_Callback(u, d) ==
    /\ total_requests < MaxRequests
    /\ total_requests' = total_requests + 1
    /\ user_data' = handle_callback(Counted(user_data, total_requests + 1, w_now),
                                    u, d, w_now)
    /\ w_last' = [kind |-> "callback", user |-> u, entry |-> SessionOf(user_data, u).state,
                  payload |-> d, notice |-> "selected"]
    /\ UNCHANGED <<w_now, WebOnly>>

\* a message whose text starts with { or contains "all_q"
W_Json(u, p) ==
    /\ total_requests < MaxRequests
    /\ total_requests' = total_requests + 1
    /\ LET ud == touch_user(Counted(user_data, total_requests + 1, w_now), u, w_now)
           r == handle_json(ud, u, p, w_now)
       IN  /\ user_data' = r.ud
           /\ w_last' = [kind |-> "json", user |-> u, entry |-> SessionOf(ud, u).state,
                         payload |-> p, notice |-> r.notice]
    /\ UNCHANGED <<w_now, WebOnly>>

\* any other text message (handle_message lines 297-302)
W_Text(u) ==
    /\ total_requests < MaxRequests
    /\ total_requests' = total_requests + 1
    /\ user_data' = touch_user(Counted(user_data, total_requests + 1, w_now), u, w_now)
    /\ w_last' = [kind |-> "text", user |-> u, entry |-> SessionOf(user_data, u).state,
                  payload |-> "none", notice |-> "use_start"]
    /\ UNCHANGED <<w_now, WebOnly>>

W_Tick ==
    /\ w_now < MaxTime
    /\ w_now' = w_now + 1
    /\ UNCHANGED <<user_data, total_requests, w_last, WebOnly>>

WebNext ==
    \/ \E u \in Users : W_Start(u)
    \/ \E u \in Users, d \in WebCallbackData : W_Callback(u, d)
    \/ \E u \in Users, p \in WebPayloads : W_Json(u, p)
    \/ \E u \in Users : W_Text(u)
    \/ W_Tick

(***************************************************************************)
(* SpecSignal: SIGINT or SIGTERM while the main thread runs the handlers   *)
(* of SpecFault.  Python runs signal_handler in the main thread between    *)
(* two bytecodes of whatever that thread is executing; its last statement, *)
(* sys.exit(0), raises SystemExit there.  SystemExit is a BaseException:   *)
(* `except Exception` does not catch it, a bare `except:` does.  The       *)
(* signal is taken while the main thread is between events or inside a     *)
(* statement of a handler.                                                 *)
(***************************************************************************)
SignalInit == should_stop = FALSE

\* whether the except clauses of try statement t catch exception e
Catches(t, e) == t = "fallback_try" \/ IsInstance(e, "Exception")

\* signal_handler (lines 207-219), delivered once
S_Signal ==
    /\ ~should_stop
    /\ f_exit # "raised"
    /\ should_stop' = TRUE
    /\ IF f_exit = "running"
       THEN /\ IF f_frames # <<>> /\ Catches(f_frames[Len(f_frames)], "SystemExit")
               THEN Enter(ExceptTarget(f_handler, f_frames[Len(f_frames)], "SystemExit"))
               ELSE /\ f_exit' = "raised"
                    /\ UNCHANGED <<f_pc, f_frames>>
            /\ f_faults' = Append(f_faults, [region |-> f_pc.region, step |-> f_pc.step,
                                             e |-> "SystemExit"])
       ELSE /\ f_exit' = "stopped"
            /\ UNCHANGED <<f_pc, f_frames, f_faults>>
    /\ UNCHANGED <<f_handler, f_state, f_notice, apiVars, storeVars, handlerVars,
                   raceVars, historyVars, validateVars, webVars, workerVars>>

SignalNext ==
    \/ FaultNext
    \/ S_Signal

(***************************************************************************)
(* SpecWorkers: run() and the maintenance threads.  Each iteration of the  *)
(* restart loop of run() calls start_background_tasks, which starts one    *)
(* more thread running maintenance_worker.  A worker is a record: pc, the  *)
(* iterations of its sleep loop done (tick), whether it has read           *)
(* should_stop as true (observed), whether it began an eviction pass after *)
(* that (late) and how many sleeps it took with the flag set (slept).      *)
(* max_restarts (100) and the 30 sleeps of a worker's loop are scaled      *)
(* down.                                                                   *)
(***************************************************************************)
max_restarts == 2
SleepTicks == 2

WorkerInit ==
    /\ run_pc = "loop"
    /\ restart_count = 0
    /\ workers = <<>>

NewWorker == [pc |-> "while", tick |-> 0, observed |-> FALSE, late |-> FALSE, slept |-> 0]

Alive == {i \in 1..Len(workers) : workers[i].pc # "exited"}

WorkerRest == <<apiVars, handlerVars, raceVars, historyVars, validateVars, faultVars,
                webVars>>

\* A mutant of SleepLoop: the sleep loop without the check of line 241.
SleepLoopUnchecked(w, stop) ==
    IF w.tick = SleepTicks THEN [w EXCEPT !.pc = "while"]
    ELSE [w EXCEPT !.pc = "sleep"]

\* lines 240-243: the head of `for _ in range(30)` and the check of the flag
SleepLoop(w, stop) ==
    IF w.tick = SleepTicks THEN [w EXCEPT !.pc = "while"]
    ELSE IF stop THEN [w EXCEPT !.pc = "while", !.observed = TRUE]
    ELSE [w EXCEPT !.pc = "sleep"]

\* line 228: while not self.should_stop
Wk_While(i) ==
    /\ workers[i].pc = "while"
    /\ workers' = [workers EXCEPT ![i] = IF should_stop
                                         THEN [@ EXCEPT !.pc = "exited", !.observed = TRUE]
                                         ELSE [@ EXCEPT !.pc = "cleanup"]]
    /\ UNCHANGED <<storeVars, should_stop, run_pc, restart_count, WorkerRest>>

\* lines 231-237: should_cleanup(), aggressive_cleanup(), force_cleanup()
Wk_Cleanup(i) ==
    /\ workers[i].pc = "cleanup"
    /\ IF now - last_cleanup > cleanup_interval
       THEN /\ \E r \in {aggressive_cleanup(user_activity, user_states,
                                            user_preferences, now)} :
                  /\ user_activity' = r.act
                  /\ user_states' = r.st
                  /\ user_preferences' = r.pr
            /\ last_cleanup' = now
            /\ workers' = [workers EXCEPT ![i] = [@ EXCEPT !.pc = "for", !.tick = 0,
                                                           !.late = @ \/ workers[i].observed]]
       ELSE /\ workers' = [workers EXCEPT ![i] = [@ EXCEPT !.pc = "for", !.tick = 0]]
            /\ UNCHANGED <<user_activity, user_states, user_preferences, last_cleanup>>
    /\ UNCHANGED <<now, should_stop, run_pc, restart_count, WorkerRest>>

\* lines 240-242
Wk_For(i) ==
    /\ workers[i].pc = "for"
    /\ workers' = [workers EXCEPT ![i] = SleepLoop(@, should_stop)]
    /\ UNCHANGED <<storeVars, should_stop, run_pc, restart_count, WorkerRest>>

\* line 243: time.sleep(1)
Wk_Sleep(i) ==
    /\ workers[i].pc = "sleep"
    /\ workers' = [workers EXCEPT ![i] =
                      [@ EXCEPT !.pc = "for", !.tick = @ + 1,
                                !.slept = IF should_stop THEN @ + 1 ELSE @]]
    /\ UNCHANGED <<storeVars, should_stop, run_pc, restart_count, WorkerRest>>

\* lines 245-247: a statement of the try raises and the loop starts over
Wk_Fault(i) ==
    /\ workers[i].pc \in {"cleanup", "for", "sleep"}
    /\ workers' = [workers EXCEPT ![i].pc = "while"]
    /\ UNCHANGED <<storeVars, should_stop, run_pc, restart_count, WorkerRest>>

Wk_Step(i) == Wk_While(i) \/ Wk_Cleanup(i) \/ Wk_For(i) \/ Wk_Sleep(i)

\* time.time() moves on
Wk_Clock ==
    /\ now < MaxTime
    /\ now' = now + 1
    /\ UNCHANGED <<user_activity, user_states, user_preferences, last_cleanup,
                   should_stop, workerVars, WorkerRest>>

\* run() lines 1241-1279: the loop condition, the application is built and
\* start_background_tasks starts a thread
R_Iterate ==
    /\ run_pc = "loop"
    /\ IF ~should_stop /\ restart_count < max_restarts
       THEN /\ restart_count' = restart_count + 1
            /\ workers' = Append(workers, NewWorker)
            /\ run_pc' = "polling"
       ELSE /\ run_pc' = "final"
            /\ UNCHANGED <<restart_count, workers>>
    /\ UNCHANGED <<storeVars, should_stop, WorkerRest>>

\* run() lines 1243-1276: building the application raises
R_BuildFault ==
    /\ run_pc = "loop"
    /\ ~should_stop /\ restart_count < max_restarts
    /\ restart_count' = restart_count + 1
    /\ run_pc' = "backoff"
    /\ UNCHANGED <<storeVars, should_stop, workers, WorkerRest>>

\* run() lines 1287-1299: run_polling returns
R_Normal ==
    /\ run_pc = "polling"
    /\ run_pc' = "final"
    /\ UNCHANGED <<storeVars, should_stop, restart_count, workers, WorkerRest>>

\* run() lines 1301-1304: KeyboardInterrupt
R_Interrupt ==
    /\ run_pc = "polling"
    /\ should_stop' = TRUE
    /\ run_pc' = "final"
    /\ UNCHANGED <<storeVars, restart_count, workers, WorkerRest>>

\* run() lines 1306-1320: run_polling raises
R_Crash ==
    /\ run_pc = "polling"
    /\ run_pc' = "backoff"
    /\ UNCHANGED <<storeVars, should_stop, restart_count, workers, WorkerRest>>

\* run() lines 1322-1334: the backoff sleep, aggressive_cleanup and
\* force_cleanup in the main thread
R_Backoff ==
    /\ run_pc = "backoff"
    /\ \E r \in {aggressive_cleanup(user_activity, user_states, user_preferences, now)} :
          /\ user_activity' = r.act
          /\ user_states' = r.st
          /\ user_preferences' = r.pr
    /\ last_cleanup' = now
    /\ run_pc' = "loop"
    /\ UNCHANGED <<now, should_stop, restart_count, workers, WorkerRest>>

\* run() lines 1339-1342: the flag is set; join(timeout=5) waits for the last
\* thread at most 5 seconds
R_Final ==
    /\ run_pc = "final"
    /\ should_stop' = TRUE
    /\ run_pc' = "done"
    /\ UNCHANGED <<storeVars, restart_count, workers, WorkerRest>>

\* signal_handler (lines 207-219) in the main thread: the flag, then
\* sys.exit(0) ends run()
R_Signal ==
    /\ run_pc \notin {"done", "exited"}
    /\ should_stop' = TRUE
    /\ run_pc' = "exited"
    /\ UNCHANGED <<storeVars, restart_count, workers, WorkerRest>>

WorkerNext ==
    \/ \E i \in 1..Len(workers) : Wk_While(i)
    \/ \E i \in 1..Len(workers) : Wk_Cleanup(i)
    \/ \E i \in 1..Len(workers) : Wk_For(i)
    \/ \E i \in 1..Len(workers) : Wk_Sleep(i)
    \/ \E i \in 1..Len(workers) : Wk_Fault(i)
    \/ Wk_Clock
    \/ R_Iterate
    \/ R_BuildFault
    \/ R_Normal
    \/ R_Interrupt
    \/ R_Crash
    \/ R_Backoff
    \/ R_Final
    \/ R_Signal

AllInit ==
    /\ ApiInit /\ StoreInit /\ HandlerInit /\ RaceInit /\ HistoryInit
    /\ ValidateInit /\ FaultInit /\ WebInit /\ SignalInit /\ WorkerInit

ExecNext ==
    \/ ApiCall /\ UNCHANGED <<storeVars, handlerVars, raceVars, historyVars, sideVars>>
    \/ ApiStep /\ UNCHANGED <<storeVars, handlerVars, raceVars, historyVars, sideVars>>

SpecExec == AllInit /\ [][ExecNext]_vars

\* every attempt ends, by result, error or the timeout of wait_for
SpecExecFair ==
    SpecExec /\ WF_vars(ApiStep /\ UNCHANGED <<storeVars, handlerVars, raceVars,
                                                historyVars, sideVars>>)

SpecStore == AllInit /\ [][StoreNext]_vars

SpecFlow == AllInit /\ [][FlowNext]_vars

SpecRace == AllInit /\ [][RaceNext]_vars

SpecValidate == AllInit /\ [][ValidateNext]_vars

SpecFault == AllInit /\ [][FaultNext]_vars

SpecWorkers == AllInit /\ [][WorkerNext]_vars

\* every started thread keeps running: the interpreter schedules each thread
SpecWorkersFair ==
    SpecWorkers /\ \A i \in 1..max_restarts : WF_vars(i \in 1..Len(workers) /\ Wk_Step(i))

SpecHealth == AllInit /\ [][HealthNext]_vars

SpecWebhook == AllInit /\ [][WebNext]_vars

SpecSignal == AllInit /\ [][SignalNext]_vars

(***************************************************************************)
(* Properties                                                              *)
(***************************************************************************)
IsTransient(o) ==
    \/ o.cls \in {"NetworkError", "TimedOut", "ConnectionError", "OSError",
                  "asyncio.TimeoutError"}
    \/ o.cls = "TelegramError" /\ o.timeoutText

IsClientError(o) == o.cls \in {"BadRequest", "Forbidden"}

CountOuts(P(_)) == Cardinality({i \in 1..Len(outs) : P(outs[i])})

JsonFromWaitingReturned ==
    h_pc = "returned" /\ h_event = "json" /\ h_entry = "waiting_for_json"

\* C1: when handle_json_message has handled a text message of a user who
\* was in waiting_for_json, the user's state is choosing_type at the return,
\* whatever the payload was and whichever of the sends failed.
C1_JsonReturnsToChoosing ==
    JsonFromWaitingReturned =>
        /\ h_user \in DOMAIN user_states
        /\ user_states[h_user] = "choosing_type"

\* the handler has returned after a payload message whose restart_cycle
\* text could not be delivered
C1_Witness ==
    JsonFromWaitingReturned /\ last_notice \in {"welcome", "selection", "selection_fallback"}

\* C2: a call whose every attempt fails with a transient error invokes the
\* operation exactly max_retries times and returns None; a call whose first
\* attempt fails with a transient error and whose second succeeds returns
\* the result after two invocations and one record_success.
C2_TransientRetries ==
    /\ (outs # <<>> /\ \A i \in 1..Len(outs) : IsTransient(outs[i])) =>
          /\ Len(outs) <= max_retries
          /\ (api_pc = "returned") = (Len(outs) = max_retries)
          /\ api_pc = "returned" => api_result = "None"
    /\ (Len(outs) >= 2 /\ IsTransient(outs[1]) /\ outs[2].cls = "Ok") =>
          /\ Len(outs) = 2
          /\ api_pc = "returned"
          /\ api_result = "result"
          /\ reported.success = 1

\* a call has returned None after max_retries transient failures
C2_Witness ==
    /\ api_pc = "returned"
    /\ api_result = "None"
    /\ Len(outs) = max_retries
    /\ \A i \in 1..Len(outs) : IsTransient(outs[i])

\* C3: RetryAfter does not use up an attempt: a call that has returned after
\* only rate-limit and transient outcomes has made max_retries transient
\* attempts.
C3_RateLimitUncounted ==
    (api_pc = "returned" /\ \A i \in 1..Len(outs) :
                               outs[i].cls = "RetryAfter" \/ IsTransient(outs[i]))
        => CountOuts(IsTransient) = max_retries

\* C4: a call whose operation raised BadRequest or Forbidden has invoked it
\* once, has returned None and has not waited.
C4_ClientErrorNotRetried ==
    (outs # <<>> /\ IsClientError(outs[1])) =>
        /\ Len(outs) = 1
        /\ api_pc = "returned"
        /\ api_result = "None"
        /\ waits = <<>>

\* C5: a call that has returned has made one report to the HealthMonitor,
\* record_success or record_failure.
C5_OneHealthReport ==
    api_pc = "returned" => reported.success + reported.failure = 1

\* C6: no exception leaves bulletproof_api_call: a call ends by returning
\* the operation's result or None.
C6_NeverRaises ==
    /\ api_pc # "raised"
    /\ api_pc = "returned" => api_result \in {"result", "None"}

\* a call has returned None after an exception that only the catch-all
\* clause handles was raised on every attempt
C6_Witness ==
    /\ api_pc = "returned"
    /\ api_result = "None"
    /\ Len(outs) = max_retries
    /\ \A i \in 1..Len(outs) : outs[i].cls = "ValueError"

\* C7: after every update_user_activity the store holds at most
\* max_stored_users users, and a capacity eviction keeps no session older
\* than one it discards.
C7_StoreBounded ==
    /\ Len(user_activity) <= max_stored_users
    /\ \A k \in lastEviction.kept, d \in lastEviction.dropped : k.t >= d.t

\* a capacity eviction has discarded a session older than one it kept
C7_Witness ==
    \E k \in lastEviction.kept, d \in lastEviction.dropped : k.t > d.t

\* C8: when an aggressive_cleanup pass has completed, no user whose last
\* activity is older than user_data_ttl is left in user_activity,
\* user_states or user_preferences.
C8_NoExpiredAfterPass == passLeft = {}

\* C9: no statement of a handler that uses the session maps runs while a
\* pass of the maintenance thread is under way.
C9_AccessSerialized == ~overlap

\* C10: once the handlers and the passes under way have finished, every
\* user in waiting_for_json has an entry in user_preferences.
C10_WaitingHasPreference ==
    (m_pc = "idle" /\ r_ops = <<>>) =>
        \A u \in DOMAIN user_states :
            user_states[u] = "waiting_for_json" => u \in DOMAIN user_preferences

OkPolls == {i \in 1..Len(polls) : polls[i].ok}

C13_StartChoosing ==
    (h_pc = "returned" /\ h_event = "start") =>
        StateOf(user_states, h_user) = "choosing_type"

\* /start from a user in waiting_for_json has returned after the welcome
\* message failed
C13_Witness ==
    /\ h_pc = "returned"
    /\ h_event = "start"
    /\ h_entry = "waiting_for_json"
    /\ last_notice = "welcome_plain"

\* C14: when handle_quiz_type_selection returns for a button pressed in
\* choosing_type, the user is in waiting_for_json and the preference is the
\* button's, whichever sends failed.
C14_SelectionRecorded ==
    (h_pc = "returned" /\ h_event = "select" /\ h_entry = "choosing_type"
        /\ h_data \in {"anonymous_true", "anonymous_false"}) =>
        /\ StateOf(user_states, h_user) = "waiting_for_json"
        /\ h_user \in DOMAIN user_preferences
        /\ user_preferences[h_user] = (h_data = "anonymous_true")

\* the non-anonymous button has been handled although the edit failed
C14_Witness ==
    /\ h_pc = "returned"
    /\ h_event = "select"
    /\ h_entry = "choosing_type"
    /\ h_data = "anonymous_false"
    /\ last_notice = "selected_plain"

\* C15: when handle_json_message returns for a user who was not in
\* waiting_for_json, the user is in choosing_type.
C15_ImplicitRestart ==
    (h_pc = "returned" /\ h_event = "json" /\ h_entry # "waiting_for_json") =>
        StateOf(user_states, h_user) = "choosing_type"

\* the message is one entry of IndexEntries under all_q, and it was validated
IndexCase ==
    /\ v_pc = "done"
    /\ v_text.json
    /\ v_text.value.t = "dict"
    /\ DOMAIN v_text.value.f = {"all_q"}
    /\ v_text.value.f["all_q"].t = "list"
    /\ Len(v_text.value.f["all_q"].items) = 1
    /\ v_text.value.f["all_q"].items[1] \in IndexEntries

\* the index an entry supplies: null when it supplies none
SuppliedIndex(d) ==
    IF "c" \in DOMAIN d /\ d["c"].t # "null" THEN d["c"]
    ELSE IF "correct" \in DOMAIN d THEN d["correct"]
    ELSE JNull

\* the index the record of an entry is to carry
ExpectedIndex(d) ==
    LET c == SuppliedIndex(d)
    IN  IF c.t = "int" /\ c.n >= 0 /\ c.n < Len(d["o"].items) THEN c.n ELSE 0

\* C16: an entry with a text and 2 to 4 options is retained; its record
\* carries the supplied index when that is an integer within the options and
\* 0 when it is absent, out of range, negative or not an integer; and the
\* explanation is empty when none is supplied.
C16_CorrectIndex ==
    IndexCase =>
        /\ v_result.kind = "batch"
        /\ Len(v_result.batch) = 1
        /\ IntOf(v_result.batch[1].c) = ExpectedIndex(v_text.value.f["all_q"].items[1].f)
        /\ v_result.batch[1].e = EmptyStr


\* the accepted keys under which the object v holds a non-empty list
ListKeys(v) ==
    {k \in 1..Len(QuestionKeys) :
        /\ QuestionKeys[k] \in DOMAIN v.f
        /\ v.f[QuestionKeys[k]].t = "list"
        /\ Len(v.f[QuestionKeys[k]].items) > 0}

\* the accepted keys the object v has
PresentKeys(v) == {k \in 1..Len(QuestionKeys) : QuestionKeys[k] \in DOMAIN v.f}

\* a question list was located: the validation loop ran over it
Located == v_result.kind \in {"batch", "no_valid"}

\* C17: an object holding a non-empty list under any accepted key has its
\* question list found; an object with no accepted key yields NoQuestions;
\* a non-empty bare top-level list is used as the question list.
C17_ListLocated ==
    (v_pc = "done" /\ v_text.json) =>
        /\ (v_text.value.t = "dict" /\ ListKeys(v_text.value) # {}) => Located
        /\ (v_text.value.t = "dict" /\ PresentKeys(v_text.value) = {})
               => v_result.kind = "no_questions"
        /\ (v_text.value.t = "list" /\ Len(v_text.value.items) > 0) => Located

\* the message is a question list, bare or alone under all_q, and the
\* validation loop ran over it
ListCase ==
    /\ v_pc = "done"
    /\ v_text.json
    /\ Located
    /\ \/ v_text.value.t = "list"
       \/ v_text.value.t = "dict" /\ DOMAIN v_text.value.f = {"all_q"}

\* the entries of the question list of the message
QuestionList ==
    IF v_text.value.t = "list" THEN v_text.value.items
    ELSE v_text.value.f["all_q"].items

\* the entry has a text and its options are a sequence of 2 to 4 items
Retained(entry) ==
    /\ entry.t = "dict"
    /\ \E k \in 1..Len(TextKeys) :
           TextKeys[k] \in DOMAIN entry.f /\ Truthy(entry.f[TextKeys[k]])
    /\ \E k \in 1..Len(OptionKeys) :
           /\ OptionKeys[k] \in DOMAIN entry.f
           /\ entry.f[OptionKeys[k]].t = "list"
           /\ Len(entry.f[OptionKeys[k]].items) \in 2..4

\* the entries of the first 50 that are to be retained, in their order
RetainedOfFirst50 == SelectSeq(SubSeq(QuestionList, 1, Min(50, Len(QuestionList))), Retained)

\* C18: the validated batch is the in-order subsequence of the first 50
\* entries that have a text and 2 to 4 options: one record per such entry,
\* with its text and its options, none for any other entry, at most 50.
C18_BatchIsFilter ==
    ListCase =>
        /\ Len(v_result.batch) = Len(RetainedOfFirst50)
        /\ Len(v_result.batch) <= 50
        /\ v_result.kind = (IF RetainedOfFirst50 = <<>> THEN "no_valid" ELSE "batch")
        /\ \A i \in 1..Len(v_result.batch) :
               /\ v_result.batch[i].q.s = str(FirstTruthy(RetainedOfFirst50[i].f, TextKeys)).s
               /\ Len(v_result.batch[i].o)
                      = Len(FirstTruthy(RetainedOfFirst50[i].f, OptionKeys).items)

\* 51 entries of which only the 1st and the 51st are valid: the batch is the
\* 1st alone
C18_Witness ==
    /\ ListCase
    /\ Len(QuestionList) = 51
    /\ Retained(QuestionList[1]) /\ ~Retained(QuestionList[2]) /\ Retained(QuestionList[51])
    /\ Len(v_result.batch) = 1
    /\ v_result.batch[1].q.s = "1"

\* C19: every record of the validated batch and every poll handed to
\* bot.send_poll has a text of at most 255 characters, 2 to 4 options of at
\* most 100 characters each, an explanation of at most 200 characters and a
\* correct index within its options.
C19_RecordsWithinLimits ==
    /\ \A i \in 1..Len(v_result.batch) :
           LET rec == v_result.batch[i]
           IN  /\ rec.q.len <= 255
               /\ Len(rec.o) \in 2..4
               /\ \A j \in 1..Len(rec.o) : rec.o[j].len <= 100
               /\ rec.e.len <= 200
               /\ IsInt(rec.c) /\ 0 <= IntOf(rec.c) /\ IntOf(rec.c) < Len(rec.o)
    /\ \A i \in 1..Len(v_polls) :
           LET poll == v_polls[i]
           IN  /\ poll.question.len <= 255
               /\ Len(poll.options) \in 2..4
               /\ \A j \in 1..Len(poll.options) : poll.options[j].len <= 100
               /\ poll.explanation.len <= 200
               /\ 0 <= poll.correct_option_id
               /\ poll.correct_option_id < Len(poll.options)

\* an entry with a text of 300 characters, options of 101 and an explanation
\* of 201 was validated and sent: each is cut to its limit
C19_Witness ==
    /\ ListCase
    /\ Len(QuestionList) = 1
    /\ QuestionList[1] \in LengthEntries
    /\ QuestionList[1].f["q"].len = 300
    /\ QuestionList[1].f["o"].items[1].len = 101
    /\ QuestionList[1].f["e"].len = 201
    /\ Len(v_result.batch) = 1
    /\ v_result.batch[1].q.len = 255
    /\ v_result.batch[1].o[1].len = 100
    /\ v_result.batch[1].e.len = 200
    /\ Len(v_polls) = 1
    /\ v_polls[1].question.len = 255
    /\ v_polls[1].options[1].len = 100
    /\ v_polls[1].explanation.len = 200

\* C20: validation of a text ends in exactly one of MalformedPayload (the
\* text is not JSON), NoQuestions (it parses, to any JSON value, and no
\* question list is located), NoValidQuestions and a non-empty batch; no
\* text that parses ends in the generic fault path.
C20_OutcomeTotal ==
    (v_pc = "done") =>
        /\ v_result.kind \in {"malformed", "no_questions", "no_valid", "batch"}
        /\ (v_result.kind = "malformed") <=> ~v_text.json
        /\ (v_result.kind = "batch") <=> (v_result.batch # <<>>)
        /\ (v_text.json /\ v_text.value.t \in {"null", "bool", "int", "float", "str"})
               => v_result.kind = "no_questions"

\* C12: no exception raised by a statement of start_command,
\* handle_quiz_type_selection or handle_json_message, their except clauses
\* and fallback sends included, leaves the handler.
C12_NoFaultEscapes == f_exit # "raised"

\* handle_json_message returned after a fault in the inner try, a fault in
\* the except clause that caught it and a fault in the fallback send
C12_Witness ==
    /\ f_handler = "handle_json_message"
    /\ f_exit = "returned"
    /\ Len(f_faults) = 3
    /\ f_faults[1].region = "inner"
    /\ f_faults[2].region = "generic_except"
    /\ f_faults[3].region = "fallback"

\* C21: record_success adds 1 to the success count and sets the consecutive
\* failures to 0; record_failure adds 1 to the failure count and to the
\* consecutive failures; and whenever the consecutive failures have reached
\* the threshold of 10 the monitor is flagged unhealthy.
C21_HealthCounters ==
    /\ [][H_Success => /\ health'.api_success_count = health.api_success_count + 1
                       /\ health'.api_failure_count = health.api_failure_count
                       /\ health'.consecutive_failures = 0]_vars
    /\ [][H_Failure => /\ health'.api_failure_count = health.api_failure_count + 1
                       /\ health'.api_success_count = health.api_success_count
                       /\ health'.consecutive_failures = health.consecutive_failures + 1]_vars
    /\ [](health.consecutive_failures >= 10 => ~health.is_healthy)

\* a success, then ten failures in a row: the monitor is unhealthy
C21_Witness ==
    /\ health.api_success_count = 1
    /\ health.consecutive_failures = 10
    /\ health.api_failure_count = 10
    /\ ~health.is_healthy

\* C22: when a pass of aggressive_cleanup that raised returns, that is when
\* the last of its emergency clears has run, user_activity, user_states and
\* user_preferences are all empty.
C22_FailSafeEmpty ==
    [][(m_pc = "clear_act" /\ m_pc' = "idle")
          => /\ user_activity' = <<>>
             /\ user_states' = EmptyMap
             /\ user_preferences' = EmptyMap]_vars

\* C23: in the webhook variant a payload received in waiting_json that does
\* not parse, or that holds no questions, is answered with an error message
\* and leaves the user's state choosing_type.
C23_WebRejectionResets ==
    (w_last.kind = "json" /\ w_last.entry = "waiting_json"
        /\ w_last.payload \in {"malformed", "no_questions"})
    => /\ w_last.notice \in {"invalid_json", "no_questions"}
       /\ SessionOf(user_data, w_last.user).state = "choosing_type"

\* C24: a stop signal never aborts an event: the process does not stop
\* with a handler part-way through its event.
C24_SignalNeverAborts == ~(should_stop /\ f_exit = "raised" /\ f_pc.region # "none")

\* a failure that is not a rate limit, not transient and not a client error
IsUnknown(o) ==
    o.cls \notin {"Ok", "RetryAfter"} /\ ~IsTransient(o) /\ ~IsClientError(o)

\* min(base * 2^a, cap) in ms
BackoffBase(a) ==
    IF 1000 * Pow2(a) < 30000 THEN 1000 * Pow2(a) ELSE 30000

\* C25: the delay waited after a transient or unknown failure at attempt a
\* (0-based) lies between B and 1.1 * B for B = min(base * 2^a, cap), so the
\* delays of one call do not decrease.  Every attempt that is followed by
\* another has waited, so waits[i] is the delay after attempt i - 1.
C25_BackoffDelay ==
    /\ \A i \in 1..Len(waits) :
           (IsTransient(outs[i]) \/ IsUnknown(outs[i])) =>
               /\ BackoffBase(i - 1) <= waits[i]
               /\ 10 * waits[i] <= 11 * BackoffBase(i - 1)
    /\ \A i, k \in 1..Len(waits) :
           (/\ i < k
            /\ IsTransient(outs[i]) \/ IsUnknown(outs[i])
            /\ IsTransient(outs[k]) \/ IsUnknown(outs[k]))
           => waits[i] <= waits[k]

\* C26: a call whose every attempt fails with an unknown fault, a
\* TelegramError that is no timeout or any other exception, returns after
\* the operation was invoked max_retries times.
C26_UnknownRetried ==
    (api_pc = "returned" /\ outs # <<>> /\ \A i \in 1..Len(outs) : IsUnknown(outs[i]))
        => Len(outs) = max_retries

\* C27: a capacity eviction leaves exactly max_stored_users // 2 sessions,
\* none of them less recent than one it discarded, and no state or
\* preference entry of a user it discarded.
C27_KeepsHalf ==
    (lastEviction.dropped # {}) =>
        /\ Cardinality(lastEviction.kept) = max_stored_users \div 2
        /\ \A k \in lastEviction.kept, d \in lastEviction.dropped : k.t >= d.t
        /\ \A d \in lastEviction.dropped : d.uid \notin lastEviction.owners
        /\ lastEviction.owners \subseteq {k.uid : k \in lastEviction.kept}

\* a capacity eviction has discarded two sessions, one of them older than
\* the one it kept, and the kept user has a state or a preference
C27_Witness ==
    /\ Cardinality(lastEviction.dropped) = 2
    /\ Cardinality(lastEviction.kept) = 1
    /\ \E k \in lastEviction.kept, d \in lastEviction.dropped : k.t > d.t
    /\ lastEviction.owners # {}

\* C28: when start_command has returned, the user has no stored preference.
C28_StartUnsetsPreference ==
    (h_pc = "returned" /\ h_event = "start") =>
        h_user \notin DOMAIN user_preferences

\* a fault of the handler that ran was caught by its top-level except clause
CaughtAtTop ==
    \E i \in 1..Len(f_faults) :
        LET frames == TryFrames(f_handler, f_faults[i].region)
        IN  /\ frames # <<>>
            /\ frames[Len(frames)] = "outer"
            /\ Catches("outer", f_faults[i].e)

\* C29: when start_command, handle_quiz_type_selection or
\* handle_json_message has returned after its top-level except clause
\* caught a fault, the generic failure message was attempted and the user is
\* in choosing_type.
C29_FaultConverted ==
    (f_exit = "returned" /\ CaughtAtTop) =>
        /\ f_notice = "generic_failure"
        /\ f_state = "choosing_type"

\* C30: the sleep after the send of question i is 100 ms if and only if every
\* send of questions 0..i of the batch succeeded, and 500 ms otherwise.
C30_AdaptiveDelay ==
    /\ Len(delays) = Len(polls)
    /\ \A k \in 1..Len(delays) :
          /\ polls[k].i = k - 1
          /\ delays[k] = IF \A j \in 1..k : polls[j].ok THEN 100 ELSE 500

\* the first send failed and the second succeeded: both delays were long
C30_Witness ==
    /\ Len(polls) = 2
    /\ ~polls[1].ok /\ polls[2].ok
    /\ delays = <<500, 500>>

\* C31: every poll of a batch carries the same anonymous flag, the user's
\* preference when handle_json_message read it on receiving the payload (true
\* when none is stored), whatever happens to the stored preference while the
\* batch is sent.
C31_BatchFlag ==
    /\ [][(h_pc # "js_processing" /\ h_pc' = "js_processing") =>
             is_anonymous' = IF h_user' \in DOMAIN user_preferences'
                             THEN user_preferences'[h_user'] ELSE TRUE]_vars
    /\ [][(h_pc \in {"js_processing", "js_processing_fb", "js_validated", "sq_send"}
             /\ h_pc' \in {"js_processing_fb", "js_validated", "sq_send", "js_completion"})
          => is_anonymous' = is_anonymous]_vars
    /\ [](\A k \in 1..Len(polls) : polls[k].anonymous = is_anonymous)

\* two polls were sent non-anonymous although the user's preference was
\* evicted before the second one
C31_Witness ==
    /\ Len(polls) = 2
    /\ ~polls[1].anonymous
    /\ ~polls[2].anonymous
    /\ h_user \notin DOMAIN user_preferences

\* C32: once should_stop is set every maintenance thread that was started
\* leaves its loop; no thread begins an eviction pass after it has read the
\* flag as set, and none takes more than one sleep of its sleep loop with the
\* flag set.
C32_WorkersStop ==
    /\ [](should_stop => <>(Alive = {}))
    /\ [](\A i \in 1..Len(workers) : ~workers[i].late /\ workers[i].slept <= 1)

\* two threads were started, the flag was set while one of them slept, and
\* both have left their loops after reading the flag
C32_Witness ==
    /\ should_stop
    /\ Len(workers) = 2
    /\ Alive = {}
    /\ \A i \in 1..2 : workers[i].observed
    /\ \E i \in 1..2 : workers[i].slept = 1

\* C38: at most one maintenance thread is alive, however often run() restarts.
C38_OneWorker == Cardinality(Alive) <= 1

\* C33: a webhook request that runs cleanup_old_users leaves no session with
\* now - last_activity > USER_TTL, however many sessions are stored.
C33_WebCleanupRemovesExpired ==
    [][(total_requests' = total_requests + 1 /\ total_requests' % CleanupEvery = 0) =>
          \A i \in 1..Len(user_data') : w_now' - user_data'[i].t <= USER_TTL]_vars

\* C34: a call of bulletproof_api_call invokes the operation at most
\* max_retries times, rate-limited attempts included, and ends, whatever the
\* attempts do.
C34_CallTerminates ==
    /\ [](Len(outs) <= max_retries)
    /\ []((Len(outs) = max_retries) => api_pc # "running")
    /\ [](api_pc = "running" => <>(api_pc \in {"returned", "raised"}))

\* a call has returned None after max_retries rate-limited attempts
C34_Witness ==
    /\ api_pc = "returned"
    /\ api_result = "None"
    /\ Len(outs) = max_retries
    /\ \A i \in 1..Len(outs) : outs[i].cls = "RetryAfter"

\* C35: after any sequence of record_success and record_failure calls the
\* monitor is healthy exactly when the consecutive failures are below the
\* threshold; a success makes it healthy; and each call adds one to the sum
\* of the two counts, which starts at 0.
C35_HealthInvariant ==
    /\ [](health.is_healthy <=> health.consecutive_failures < max_consecutive_failures)
    /\ [][H_Success => health'.is_healthy]_vars
    /\ [][(H_Success \/ H_Failure) =>
             health'.api_success_count + health'.api_failure_count
                 = health.api_success_count + health.api_failure_count + 1]_vars

\* ten failures made the monitor unhealthy and the one success after them
\* made it healthy again
C35_Witness ==
    /\ health.api_failure_count = 10
    /\ health.api_success_count = 1
    /\ health.consecutive_failures = 0
    /\ health.is_healthy

\* C36: every user with an entry in user_states or user_preferences has an
\* entry in user_activity.
C36_KeysConsistent ==
    ((DOMAIN user_states) \cup (DOMAIN user_preferences)) \subseteq ActivityKeys(user_activity)

\* the eviction policy allows the removal of user u's session now: it is
\* older than user_data_ttl, or the store is over max_stored_users and u is
\* not among the max_stored_users // 2 most recently active
RemovalAllowed(u) ==
    LET s == user_activity[ActivityOf(user_activity, u)]
        top == SubSeq(sorted_users(user_activity), 1, KeepCount(Len(user_activity)))
    IN  \/ now - s.t > user_data_ttl
        \/ /\ Len(user_activity) > max_stored_users
           /\ u \notin ActivityKeys(top)

\* C37: an entry of a user who has a session leaves user_activity,
\* user_states or user_preferences only when the policy allows the removal
\* of that session.
C37_OnlyPolicyRemovals ==
    [][\A u \in ActivityKeys(user_activity) :
          (\/ u \notin ActivityKeys(user_activity')
           \/ u \in (DOMAIN user_states) \ (DOMAIN user_states')
           \/ u \in (DOMAIN user_preferences) \ (DOMAIN user_preferences'))
          => RemovalAllowed(u)]_vars

====
